---- MODULE Spec2Model ----
(***************************************************************************)
(* Verification model of the documentation reference server:               *)
(*   - SearchIndexBuilder (services/preprocessing/index-builder.ts) over   *)
(*     the MiniSearch engine it drives,                                    *)
(*   - MarkdownProcessor (services/preprocessing/markdown-processor.ts).   *)
(*                                                                         *)
(* Text is modelled as sequences of one-character strings, so that         *)
(* splitting, tokenising and prefix matching are computed, not assumed.    *)
(* Importance values are kept in half units (1.0 is 2, 3.5 is 7), scores   *)
(* in thousandths.                                                         *)
(*                                                                         *)
(* Specifications:                                                         *)
(*   Spec       the index builder: construction, buildIndex, updateDocs,   *)
(*              saveIndex, loadIndex, search, over one index file          *)
(*   SpecRevise the same builder over documents whose files are revised   *)
(*              between calls                                              *)
(*   SpecService a docs service from process start: getInstance, the steps  *)
(*              of initialize, searches through the cache                  *)
(*   SpecTools  the server's CallTool request handler on bounded requests   *)
(*   SpecLimiter  interleaved callers of RateLimiter.wait                   *)
(*   SpecQuery  the query preprocessing of search, on bounded raw queries  *)
(*   SpecMd     processFile's chunking, on bounded token streams           *)
(*   SpecDirs   processAllDocs over bounded directory trees with files and *)
(*              directories that cannot be read                            *)
(*   SpecCache  the two-tier Cache (utils/cache.ts) with one key: get,     *)
(*              set, clear, the background disk cleanup, process restarts, *)
(*              the clock and failing file operations                      *)
(*   SpecTiers  the same cache in one process without failures: sets with   *)
(*              and without memoryOnly, gets, the clock                    *)
(*   SpecFlight clear() while the writeFile calls of sets are in flight     *)
(*   SpecKeys   the same cache with several keys and room for 2 entries    *)
(*   SpecCleanup  one cleanupDiskCache pass over bounded cache directories *)
(***************************************************************************)
EXTENDS Integers, Sequences, FiniteSets, TLC

VARIABLES
    searchIndex,   \* SearchIndexBuilder.searchIndex: the MiniSearch instance
    indexFile,     \* the file at SearchIndexBuilder.indexPath
    call,          \* the last operation called on the builder, with its arguments
    ret,           \* what that operation returned or how it failed
    rawQuery,      \* SpecQuery: the query argument of search
    cleanedQuery,  \* SpecQuery: the string handed to the engine
    mdTokens,      \* SpecMd: the token stream marked.lexer produced for a file
    mdChunks,      \* SpecMd: the chunks of the ProcessedDoc returned by processFile
    docsTree,      \* SpecDirs: the directories under basePath, by category path
    allDocs,       \* SpecDirs: what processAllDocs resolved to
    memoryCache,   \* Cache.memoryCache: the Map's entries in insertion order
    diskFiles,     \* the files in Cache.diskCachePath
    now,           \* Date.now()
    cleanupPending,\* a cleanupDiskCache pass was started and has not run yet
    cacheCall,     \* the last step of the cache: an operation with its arguments
    cacheRet,      \* what that operation resolved to
    lastSet,       \* history: for each key, the data and time of the latest set
    inFlight,      \* the writeFile calls of set that were started and have not settled
    clearing,      \* the position of the clear() in progress
    service,       \* a docs service: its singleton and the position of initialize
    request,       \* the service-level search in flight, or the last one with its answer
    toolRequest,   \* SpecTools: the CallTool request the server received
    toolResponse,  \* SpecTools: how the request handler settled
    lastRequestTime, \* RateLimiter.lastRequestTime
    waiters,       \* the position of every caller of RateLimiter.wait
    returned       \* history: the times at which calls of wait returned

vars == <<searchIndex, indexFile, call, ret, rawQuery, cleanedQuery, mdTokens, mdChunks,
          docsTree, allDocs,
          memoryCache, diskFiles, now, cleanupPending, cacheCall, cacheRet, lastSet,
          inFlight, clearing, service, request, toolRequest, toolResponse,
          lastRequestTime, waiters, returned>>

indexVars == <<searchIndex, indexFile, call, ret>>
queryVars == <<rawQuery, cleanedQuery>>
mdVars == <<mdTokens, mdChunks>>
dirVars == <<docsTree, allDocs>>
cacheVars == <<memoryCache, diskFiles, now, cleanupPending, cacheCall, cacheRet, lastSet>>
flightVars == <<inFlight, clearing>>
svcVars == <<service, request>>
toolVars == <<toolRequest, toolResponse>>
limiterVars == <<lastRequestTime, waiters, returned>>

(***************************************************************************)
(* Sequences and text                                                      *)
(***************************************************************************)

Take(s, n) == SubSeq(s, 1, IF Len(s) < n THEN Len(s) ELSE n)

\* The elements of s longer than n, in order.
RECURSIVE LongerThan(_, _)
LongerThan(s, n) ==
    IF s = <<>> THEN <<>>
    ELSE (IF Len(Head(s)) > n THEN <<Head(s)>> ELSE <<>>) \o LongerThan(Tail(s), n)

RECURSIVE SumSeq(_)
SumSeq(s) == IF s = <<>> THEN 0 ELSE Head(s) + SumSeq(Tail(s))

\* String.prototype.split(sep) for a one-character separator set: every
\* separator character ends a piece, so "a  b" gives "a", "", "b" and the
\* empty string gives one empty piece.
RECURSIVE SplitAcc(_, _, _)
SplitAcc(s, seps, cur) ==
    IF s = <<>> THEN <<cur>>
    ELSE IF Head(s) \in seps THEN <<cur>> \o SplitAcc(Tail(s), seps, <<>>)
    ELSE SplitAcc(Tail(s), seps, Append(cur, Head(s)))

SplitOn(s, seps) == SplitAcc(s, seps, <<>>)

\* Array.prototype.join(sep).
RECURSIVE JoinWith(_, _)
JoinWith(pieces, sep) ==
    IF pieces = <<>> THEN <<>>
    ELSE IF Len(pieces) = 1 THEN pieces[1]
    ELSE pieces[1] \o <<sep>> \o JoinWith(Tail(pieces), sep)

IsPrefix(p, w) == Len(p) <= Len(w) /\ SubSeq(w, 1, Len(p)) = p

\* The characters of the model's texts.
Space == " "
Newline == "\n"

(***************************************************************************)
(* SearchIndexBuilder.search: query preprocessing                          *)
(***************************************************************************)

\* .filter(word => word.length > 2): words this short are dropped
ShortWordLength == 2

\* .slice(0, 3)
MaxQueryTerms == 3

\* query.split(' ').filter(word => word.length > 2).slice(0, 3).join(' ')
CleanQuery(query) ==
    JoinWith(Take(LongerThan(SplitOn(query, {Space}), ShortWordLength), MaxQueryTerms), Space)

(***************************************************************************)
(* The corpus: ProcessedDoc values handed to buildIndex and updateDocs     *)
(***************************************************************************)

W_type == <<"t", "y", "p", "e">>
W_types == <<"t", "y", "p", "e", "s">>
W_typ == <<"t", "y", "p">>
W_enum == <<"e", "n", "u", "m">>
W_void == <<"v", "o", "i", "d">>
W_an == <<"a", "n">>

Chunk(content, section, importance) ==
    [content |-> content, metadata |-> [section |-> section, importance |-> importance]]

\* Importance in half units: 2 is 1.0, 7 is 3.5.
DocA ==
    [id |-> "A", title |-> W_type,
     chunks |-> << Chunk(W_enum, <<>>, 2),
                   Chunk(W_enum, <<"U", "s", "a", "g", "e">>, 7),
                   Chunk(W_enum \o <<Space>> \o W_void, <<"N", "o", "t", "e", "s">>, 4),
                   Chunk(W_enum, <<"N", "o", "t", "e", "s">>, 3),
                   Chunk(W_void \o <<Newline>> \o W_enum, <<"N", "o", "t", "e", "s">>, 2),
                   Chunk(W_enum \o <<Space>> \o W_type, <<"U", "s", "a", "g", "e">>, 6) >>,
     metadata |-> [category |-> "handbook", path |-> "a.md"]]

DocB ==
    [id |-> "B", title |-> W_types,
     chunks |-> << Chunk(W_enum \o <<Space>> \o W_type, <<>>, 3) >>,
     metadata |-> [category |-> "reference", path |-> "b.md"]]

Corpus == {DocA, DocB}

\* The longest document list handed to buildIndex or updateDocs.
MaxDocs == 2

\* Lists of documents of distinct files, as a directory walk yields them.
DocLists ==
    {l \in UNION {[1..n -> Corpus] : n \in 1..MaxDocs} :
        \A i, j \in 1..Len(l) : i /= j => l[i].id /= l[j].id}

\* category arguments of search; the empty string stands for "no category"
\* (options.category is falsy); no document carries "javascript".
NoCategory == ""
Categories == {NoCategory, "handbook", "javascript"}

Queries ==
    { W_enum, W_typ, W_type, W_types,
      W_an \o <<Space>> \o W_enum \o <<Space, Space>> \o W_void }

(***************************************************************************)
(* MiniSearch, as index-builder.ts configures and drives it                *)
(***************************************************************************)

\* b's entries override a's: { ...a, ...b }
Merge(a, b) ==
    [k \in DOMAIN a \cup DOMAIN b |-> IF k \in DOMAIN b THEN b[k] ELSE a[k]]

NoOptions == [k \in {} |-> 0]

\* MiniSearch's own defaults: no prefix search, no fuzzy search, no boost;
\* weights in thousandths of the weight of an exact match.
DefaultSearchOptions ==
    [boost |-> NoOptions, prefix |-> FALSE, fuzzy |-> 0,
     weights |-> [fuzzy |-> 450, prefix |-> 375]]

\* new MiniSearch({...}) in the constructor; fuzzy in tenths (0.1 is 1).
ConstructorOptions ==
    [fields |-> <<"title", "content">>,
     storeFields |-> {"title", "path", "category"},
     searchOptions |-> [boost |-> [title |-> 3, content |-> 1], prefix |-> TRUE, fuzzy |-> 1]]

\* The options loadIndex hands to MiniSearch.loadJS: no searchOptions.
LoadOptions ==
    [fields |-> <<"title", "content", "section", "category">>,
     storeFields |-> {"title", "category", "importance", "path"},
     searchOptions |-> NoOptions]

\* The options search passes on every call (the filter is passed apart).
CallSearchOptions == [boost |-> [title |-> 3, content |-> 1], fuzzy |-> 1]

NewMiniSearch(options) == [options |-> options, documents |-> <<>>]

\* The default tokenizer splits on runs of spaces, line breaks and
\* punctuation; empty terms are dropped.
Tokenize(text) == LongerThan(SplitOn(text, {Space, Newline}), 0)

\* processDocForIndexing: one IndexedDoc per chunk, id `${doc.id}_${index}`.
ProcessDocForIndexing(doc) ==
    [i \in 1..Len(doc.chunks) |->
        [path |-> doc.metadata.path,
         id |-> <<doc.id, i - 1>>,
         title |-> doc.title,
         content |-> doc.chunks[i].content,
         section |-> doc.chunks[i].metadata.section,
         category |-> doc.metadata.category,
         importance |-> doc.chunks[i].metadata.importance]]

RECURSIVE FlatMapDocs(_)
FlatMapDocs(docs) ==
    IF docs = <<>> THEN <<>>
    ELSE ProcessDocForIndexing(Head(docs)) \o FlatMapDocs(Tail(docs))

IndexIds(ms) == {ms.documents[i].id : i \in 1..Len(ms.documents)}

\* What add() keeps of a document: the terms of the fields that have a
\* field id, and the fields named in storeFields. The field ids are those of
\* the constructor's fields, title and content, also after loadIndex (a
\* deserialized index keeps the ids it was saved with); the section and
\* category terms an instance made by loadIndex files under no field id are
\* left out: no query of the model holds a word of a section title or of a
\* category name.
IndexEntry(ms, d) ==
    [id |-> d.id,
     title |-> Tokenize(d.title),
     content |-> Tokenize(d.content),
     stored |-> [f \in ms.options.storeFields |-> d[f]]]

\* addAll(documents): add() one by one; add() throws on an id already in
\* the index, and the documents added before it stay.
RECURSIVE MsAddAll(_, _)
MsAddAll(ms, documents) ==
    IF documents = <<>> THEN [ms |-> ms, error |-> "none"]
    ELSE IF Head(documents).id \in IndexIds(ms) THEN [ms |-> ms, error |-> "duplicate ID"]
    ELSE MsAddAll([ms EXCEPT !.documents = Append(@, IndexEntry(ms, Head(documents)))],
                  Tail(documents))

RECURSIVE WithoutId(_, _)
WithoutId(entries, id) ==
    IF entries = <<>> THEN <<>>
    ELSE (IF Head(entries).id = id THEN <<>> ELSE <<Head(entries)>>) \o WithoutId(Tail(entries), id)

\* remove(document): throws when the id is not in the index.
MsRemove(ms, d) ==
    IF d.id \in IndexIds(ms)
    THEN [ms |-> [ms EXCEPT !.documents = WithoutId(@, d.id)], error |-> "none"]
    ELSE [ms |-> ms, error |-> "not in the index"]

\* toJSON(): the documents with their terms and stored fields; the options
\* are not part of the serialized index.
ToJSON(ms) == [kind |-> "index", documents |-> ms.documents]

\* MiniSearch.loadJS(json, options)
LoadJS(json, options) == [options |-> options, documents |-> json.documents]

(***************************************************************************)
(* MiniSearch.search                                                       *)
(***************************************************************************)

\* { ...defaultSearchOptions, ...this._options.searchOptions, ...searchOptions }
EffectiveOptions(ms, searchOptions) ==
    Merge(Merge(DefaultSearchOptions, ms.options.searchOptions), searchOptions)

\* boost[field] || 1
BoostOf(o, field) == IF field \in DOMAIN o.boost THEN o.boost[field] ELSE 1

\* Math.min(maxFuzzy, Math.round(term.length * fuzzy)), fuzzy in tenths; the
\* model's words are shorter than 15 characters, so this is 0 or 1.
MaxDistance(term, o) == (Len(term) * o.fuzzy + 5) \div 10

WithoutAt(w, i) == SubSeq(w, 1, i - 1) \o SubSeq(w, i + 1, Len(w))

\* Edit distance exactly 1.
OneEdit(a, b) ==
    \/ /\ Len(a) = Len(b)
       /\ Cardinality({i \in 1..Len(a) : a[i] /= b[i]}) = 1
    \/ /\ Len(a) + 1 = Len(b)
       /\ \E i \in 1..Len(b) : WithoutAt(b, i) = a
    \/ /\ Len(b) + 1 = Len(a)
       /\ \E i \in 1..Len(a) : WithoutAt(a, i) = b

\* How much an indexed term w counts for the query term t: the exact match,
\* else a prefix match when prefix search is on, else a fuzzy match within
\* the edit distance the fuzzy option allows.
TermWeight(t, w, o) ==
    IF w = t THEN 1000
    ELSE IF o.prefix /\ IsPrefix(t, w) THEN o.weights.prefix
    ELSE IF MaxDistance(t, o) >= 1 /\ OneEdit(t, w) THEN o.weights.fuzzy
    ELSE 0

FieldScore(t, fieldTerms, o) ==
    SumSeq([i \in 1..Len(fieldTerms) |-> TermWeight(t, fieldTerms[i], o)])

\* The relevance of an entry: over the query terms (combined with OR) and
\* the two indexed fields, the boosted weight of every matching term.
\* Document length normalisation is left out.
EntryScore(e, terms, o) ==
    SumSeq([i \in 1..Len(terms) |->
              BoostOf(o, "title") * FieldScore(terms[i], e.title, o)
            + BoostOf(o, "content") * FieldScore(terms[i], e.content, o)])

\* A search that installs no filter.
CategoryFilterNotInstalled(stored, category) == TRUE

\* The filter search installs when options.category is truthy.
CategoryFilter(stored, category) ==
    category = NoCategory \/ stored.category = category

\* Items with a key <<k1, k2>>, by descending key, equal keys in the order
\* given (Array.prototype.sort is stable).
KeyLess(a, b) == a[1] < b[1] \/ (a[1] = b[1] /\ a[2] < b[2])

RECURSIVE InsertDesc(_, _)
InsertDesc(sorted, x) ==
    IF sorted = <<>> THEN <<x>>
    ELSE IF KeyLess(Head(sorted).key, x.key) THEN <<x>> \o sorted
    ELSE <<Head(sorted)>> \o InsertDesc(Tail(sorted), x)

RECURSIVE StableSortDesc(_)
StableSortDesc(items) ==
    IF items = <<>> THEN <<>>
    ELSE InsertDesc(StableSortDesc(SubSeq(items, 1, Len(items) - 1)), items[Len(items)])

RECURSIVE Matching(_, _, _, _)
Matching(entries, terms, o, category) ==
    IF entries = <<>> THEN <<>>
    ELSE LET e == Head(entries)
             score == EntryScore(e, terms, o)
         IN  (IF score > 0 /\ CategoryFilter(e.stored, category)
              THEN << [id |-> e.id, score |-> score, key |-> <<score, 0>>] >>
              ELSE <<>>)
             \o Matching(Tail(entries), terms, o, category)

\* search(query, searchOptions): the matching entries that pass the filter,
\* by descending score.
MsSearch(ms, queryText, searchOptions, category) ==
    StableSortDesc(Matching(ms.documents, Tokenize(queryText),
                            EffectiveOptions(ms, searchOptions), category))

\* getStoredFields(id)
GetStoredFields(ms, id) ==
    LET i == CHOOSE i \in 1..Len(ms.documents) : ms.documents[i].id = id
    IN  ms.documents[i].stored

(***************************************************************************)
(* SearchIndexBuilder.search                                               *)
(***************************************************************************)

\* .slice(0, 5)
MaxResults == 5

\* typeof stored?.importance === 'number' ? stored.importance : 0
ImportanceOf(stored) ==
    IF "importance" \in DOMAIN stored THEN stored.importance ELSE 0

\* The map over searchResults: id, score and the stored display fields; the
\* key is what the sort that follows compares.
MapResults(ms, searchResults) ==
    [i \in 1..Len(searchResults) |->
        LET stored == GetStoredFields(ms, searchResults[i].id)
        IN  [id |-> searchResults[i].id,
             score |-> searchResults[i].score,
             title |-> stored.title,
             category |-> stored.category,
             path |-> stored.path,
             key |-> <<searchResults[i].score, ImportanceOf(stored)>>]]

\* The hits as returned: without the sort key.
Returned(sorted) ==
    [i \in 1..Len(sorted) |->
        [id |-> sorted[i].id, score |-> sorted[i].score, title |-> sorted[i].title,
         category |-> sorted[i].category, path |-> sorted[i].path]]

\* search without the slice.
SearchWithoutSlice(ms, query, category) ==
    Returned(StableSortDesc(MapResults(ms,
        MsSearch(ms, CleanQuery(query), CallSearchOptions, category))))

\* search: clean the query, run the engine with the category filter, keep
\* the first 5, map, then sort by score and stored importance.
Search(ms, query, category) ==
    Returned(StableSortDesc(MapResults(ms,
        Take(MsSearch(ms, CleanQuery(query), CallSearchOptions, category), MaxResults))))

(***************************************************************************)
(* SearchIndexBuilder: persistence and updates                             *)
(***************************************************************************)

Missing == [kind |-> "missing"]
Corrupt == [kind |-> "corrupt"]

\* What the file system does to the persist step of one call: nothing, or
\* mkdir throws (the file stays as it was), or writeFile throws after it
\* has truncated the file.
Faults == {"none", "mkdir", "writeFile"}

Void == [kind |-> "void"]
Rejected(error) == [kind |-> "rejected", error |-> error]

\* saveIndex with a catch that logs and does not rethrow.
SaveIndexSwallowing(ms, file, fault) ==
    CASE fault = "none" -> [file |-> ToJSON(ms), ret |-> Void]
      [] fault = "mkdir" -> [file |-> file, ret |-> Void]
      [] fault = "writeFile" -> [file |-> Corrupt, ret |-> Void]

\* saveIndex: mkdir, then writeFile of JSON.stringify(toJSON()); the catch
\* logs and rethrows.
SaveIndexResult(ms, file, fault) ==
    CASE fault = "none" -> [file |-> ToJSON(ms), ret |-> Void]
      [] fault = "mkdir" -> [file |-> file, ret |-> Rejected(fault)]
      [] fault = "writeFile" -> [file |-> Corrupt, ret |-> Rejected(fault)]

\* buildIndex: addAll of every document's entries, then saveIndex; an error
\* of addAll leaves before the save.
BuildIndexResult(ms, file, docs, fault) ==
    LET added == MsAddAll(ms, FlatMapDocs(docs))
    IN  IF added.error /= "none"
        THEN [ms |-> added.ms, file |-> file, ret |-> Rejected(added.error)]
        ELSE LET saved == SaveIndexResult(added.ms, file, fault)
             IN  [ms |-> added.ms, file |-> saved.file, ret |-> saved.ret]

\* The loop of updateDocs without the try around remove: the first error
\* ends the removals.
RECURSIVE RemoveAllStoppingAtError(_, _)
RemoveAllStoppingAtError(ms, documents) ==
    IF documents = <<>> THEN ms
    ELSE IF MsRemove(ms, Head(documents)).error /= "none" THEN ms
    ELSE RemoveAllStoppingAtError(MsRemove(ms, Head(documents)).ms, Tail(documents))

\* How many times the catch inside the loop of updateDocs runs.
RECURSIVE RemoveErrors(_, _)
RemoveErrors(ms, documents) ==
    IF documents = <<>> THEN 0
    ELSE (IF MsRemove(ms, Head(documents)).error /= "none" THEN 1 ELSE 0)
         + RemoveErrors(MsRemove(ms, Head(documents)).ms, Tail(documents))

\* The loop of updateDocs: remove each entry, an error of remove is logged
\* and the loop goes on.
RECURSIVE RemoveAll(_, _)
RemoveAll(ms, documents) ==
    IF documents = <<>> THEN ms
    ELSE RemoveAll(MsRemove(ms, Head(documents)).ms, Tail(documents))

\* updateDocs: remove the entries of the documents, addAll, saveIndex.
UpdateDocsResult(ms, file, docs, fault) ==
    LET docsToUpdate == FlatMapDocs(docs)
        added == MsAddAll(RemoveAll(ms, docsToUpdate), docsToUpdate)
    IN  IF added.error /= "none"
        THEN [ms |-> added.ms, file |-> file, ret |-> Rejected(added.error)]
        ELSE LET saved == SaveIndexResult(added.ms, file, fault)
             IN  [ms |-> added.ms, file |-> saved.file, ret |-> saved.ret]

\* loadIndex that installs an empty index before it reads the file.
LoadIndexResetting(ms, file) ==
    IF file.kind = "index"
    THEN [ms |-> LoadJS(file, LoadOptions), ret |-> [kind |-> "bool", value |-> TRUE]]
    ELSE [ms |-> NewMiniSearch(LoadOptions), ret |-> [kind |-> "bool", value |-> FALSE]]

\* loadIndex: readFile, JSON.parse and loadJS inside one try; any throw is
\* logged and gives false, with searchIndex not assigned.
LoadIndexResult(ms, file) ==
    IF file.kind = "index"
    THEN [ms |-> LoadJS(file, LoadOptions), ret |-> [kind |-> "bool", value |-> TRUE]]
    ELSE [ms |-> ms, ret |-> [kind |-> "bool", value |-> FALSE]]

\* True when the persist step of the call is reached (addAll did not throw).
ReachesSave(ms, docsToAdd) == MsAddAll(ms, docsToAdd).error = "none"

(***************************************************************************)
(* Spec: one SearchIndexBuilder over one index file                        *)
(***************************************************************************)

QueryIdle == /\ rawQuery = <<>>
             /\ cleanedQuery = [kind |-> "idle"]

MdIdle == /\ mdTokens = <<>>
          /\ mdChunks = [kind |-> "idle"]

DirIdle == /\ docsTree = <<>>
           /\ allDocs = [kind |-> "idle"]

FlightIdle == /\ inFlight = {}
              /\ clearing = [pc |-> "none"]

ServiceIdle == /\ service = [kind |-> "idle"]
               /\ request = [kind |-> "idle"]

ToolIdle == /\ toolRequest = [kind |-> "idle"]
            /\ toolResponse = [kind |-> "idle"]

LimiterIdle == /\ lastRequestTime = 0
               /\ waiters = <<>>
               /\ returned = <<>>

\* The parts of the server a specification leaves alone.
ServerIdle == FlightIdle /\ ServiceIdle /\ ToolIdle /\ LimiterIdle

CacheIdle == /\ memoryCache = <<>>
             /\ diskFiles = {}
             /\ now = 0
             /\ cleanupPending = FALSE
             /\ cacheCall = [op |-> "new"]
             /\ cacheRet = [kind |-> "void"]
             /\ lastSet = <<>>

Init ==
    /\ searchIndex = NewMiniSearch(ConstructorOptions)
    /\ indexFile = Missing
    /\ call = [op |-> "new"]
    /\ ret = Void
    /\ QueryIdle
    /\ MdIdle
    /\ DirIdle
    /\ CacheIdle
    /\ ServerIdle

\* new SearchIndexBuilder(basePath): a process start over the same file.
NewBuilder ==
    /\ searchIndex' = NewMiniSearch(ConstructorOptions)
    /\ call' = [op |-> "new"]
    /\ ret' = Void
    /\ UNCHANGED <<indexFile, queryVars, mdVars, dirVars, cacheVars,
                   flightVars, svcVars, toolVars, limiterVars>>

\* buildIndex(docs), for docs of the given lists and the given behaviour of
\* the file system.
BuildIndexOf(lists, faults) ==
    \E docs \in lists, fault \in faults :
        \E r \in {BuildIndexResult(searchIndex, indexFile, docs, fault)} :
            /\ fault /= "none" => ReachesSave(searchIndex, FlatMapDocs(docs))
            /\ searchIndex' = r.ms
            /\ indexFile' = r.file
            /\ call' = [op |-> "buildIndex", docs |-> docs, fault |-> fault]
            /\ ret' = r.ret
            /\ UNCHANGED <<queryVars, mdVars, dirVars, cacheVars,
                           flightVars, svcVars, toolVars, limiterVars>>

BuildIndex == BuildIndexOf(DocLists, Faults)

\* updateDocs(docs)
UpdateDocsOf(lists, faults) ==
    \E docs \in lists, fault \in faults :
        \E r \in {UpdateDocsResult(searchIndex, indexFile, docs, fault)} :
            /\ fault /= "none" =>
                ReachesSave(RemoveAll(searchIndex, FlatMapDocs(docs)), FlatMapDocs(docs))
            /\ searchIndex' = r.ms
            /\ indexFile' = r.file
            /\ call' = [op |-> "updateDocs", docs |-> docs, fault |-> fault,
                         removeErrors |-> RemoveErrors(searchIndex, FlatMapDocs(docs))]
            /\ ret' = r.ret
            /\ UNCHANGED <<queryVars, mdVars, dirVars, cacheVars,
                           flightVars, svcVars, toolVars, limiterVars>>

UpdateDocs == UpdateDocsOf(DocLists, Faults)

SaveIndex ==
    \E fault \in Faults :
        LET r == SaveIndexResult(searchIndex, indexFile, fault)
        IN  /\ indexFile' = r.file
            /\ call' = [op |-> "saveIndex", fault |-> fault]
            /\ ret' = r.ret
            /\ UNCHANGED <<searchIndex, queryVars, mdVars, dirVars, cacheVars,
                           flightVars, svcVars, toolVars, limiterVars>>

LoadIndex ==
    LET r == LoadIndexResult(searchIndex, indexFile)
    IN  /\ searchIndex' = r.ms
        /\ call' = [op |-> "loadIndex"]
        /\ ret' = r.ret
        /\ UNCHANGED <<indexFile, queryVars, mdVars, dirVars, cacheVars,
                       flightVars, svcVars, toolVars, limiterVars>>

\* search(query, {category})
SearchOf(queries, categories) ==
    \E query \in queries, category \in categories :
        /\ call' = [op |-> "search", query |-> query, category |-> category]
        /\ ret' = [kind |-> "hits",
                   hits |-> Search(searchIndex, query, category),
                   options |-> EffectiveOptions(searchIndex, CallSearchOptions)]
        /\ UNCHANGED <<searchIndex, indexFile, queryVars, mdVars, dirVars, cacheVars,
                       flightVars, svcVars, toolVars, limiterVars>>

SearchCall == SearchOf(Queries, Categories)

\* The environment: the index file is deleted, or damaged so that it no
\* longer parses.
FileDamaged ==
    \E f \in {Missing, Corrupt} :
        /\ indexFile /= f
        /\ indexFile' = f
        /\ call' = [op |-> "fileDamaged"]
        /\ ret' = Void
        /\ UNCHANGED <<searchIndex, queryVars, mdVars, dirVars, cacheVars,
                       flightVars, svcVars, toolVars, limiterVars>>

Next ==
    \/ NewBuilder
    \/ BuildIndex
    \/ UpdateDocs
    \/ SaveIndex
    \/ LoadIndex
    \/ SearchCall
    \/ FileDamaged

Spec == Init /\ [][Next]_vars

(***************************************************************************)
(* SpecRevise: one builder over files that are revised between calls       *)
(***************************************************************************)

\* b.md after an edit that split its text under two headings: the same
\* path, hence the same id, with two chunks.
DocB2 ==
    [id |-> "B", title |-> W_types,
     chunks |-> << Chunk(W_enum, <<>>, 2), Chunk(W_void, <<"N", "o", "t", "e", "s">>, 2) >>,
     metadata |-> [category |-> "reference", path |-> "b.md"]]

DocC ==
    [id |-> "C", title |-> W_void,
     chunks |-> << Chunk(W_void \o <<Space>> \o W_type, <<>>, 2) >>,
     metadata |-> [category |-> "handbook", path |-> "c.md"]]

Revisions == {DocB, DocB2, DocC}

\* Lists of documents of distinct files, each in one of its revisions.
RevisionLists ==
    {l \in UNION {[1..n -> Revisions] : n \in 1..MaxDocs} :
        \A i, j \in 1..Len(l) : i /= j => l[i].id /= l[j].id}

ProbeQueries == {W_void, W_enum}

NextRevise ==
    \/ NewBuilder
    \/ BuildIndexOf(RevisionLists, {"none"})
    \/ UpdateDocsOf(RevisionLists, {"none"})
    \/ LoadIndex
    \/ SearchOf(ProbeQueries, {NoCategory})

SpecRevise == Init /\ [][NextRevise]_vars

(***************************************************************************)
(* SpecQuery: the query preprocessing of search on bounded raw queries     *)
(***************************************************************************)

W_of == <<"o", "f">>

\* The words raw queries are made of: empty (two separators in a row), too
\* short, and long enough.
QueryWords == {<<>>, W_of, W_typ, W_enum}

\* The characters that separate the words of a raw query.
Whitespace == {Space, Newline}

\* The most words in a raw query.
MaxWords == 4

RECURSIVE JoinAlternating(_, _)
JoinAlternating(words, seps) ==
    IF Len(words) = 1 THEN words[1]
    ELSE words[1] \o <<seps[1]>> \o JoinAlternating(Tail(words), Tail(seps))

RawQueries ==
    UNION {{JoinAlternating(ws, ss) : ws \in [1..n -> QueryWords], ss \in [1..(n - 1) -> Whitespace]}
           : n \in 1..MaxWords}

IndexIdle ==
    /\ searchIndex = NewMiniSearch(ConstructorOptions)
    /\ indexFile = Missing
    /\ call = [op |-> "new"]
    /\ ret = Void

InitQuery ==
    /\ rawQuery \in RawQueries
    /\ cleanedQuery = [kind |-> "idle"]
    /\ IndexIdle
    /\ MdIdle
    /\ DirIdle
    /\ CacheIdle
    /\ ServerIdle

\* The first statement of search: cleanedQuery is computed from query.
CleanStep ==
    /\ cleanedQuery.kind = "idle"
    /\ cleanedQuery' = [kind |-> "cleaned", text |-> CleanQuery(rawQuery)]
    /\ UNCHANGED <<rawQuery, indexVars, mdVars, dirVars, cacheVars,
                   flightVars, svcVars, toolVars, limiterVars>>

\* MiniSearch tokenizes the cleaned query into the terms it looks up.
EngineTokenizeStep ==
    /\ cleanedQuery.kind = "cleaned"
    /\ cleanedQuery' = [kind |-> "searched", text |-> cleanedQuery.text,
                        terms |-> Tokenize(cleanedQuery.text)]
    /\ UNCHANGED <<rawQuery, indexVars, mdVars, dirVars, cacheVars,
                   flightVars, svcVars, toolVars, limiterVars>>

NextQuery == CleanStep \/ EngineTokenizeStep

SpecQuery == InitQuery /\ [][NextQuery]_vars

(***************************************************************************)
(* MarkdownProcessor.processFile: chunking and importance                  *)
(***************************************************************************)

\* String.prototype.toLowerCase on the letters the model's headings use.
LowerChar(c) ==
    CASE c = "U" -> "u"
      [] c = "N" -> "n"
      [] c = "T" -> "t"
      [] OTHER -> c

ToLowerCase(text) == [i \in 1..Len(text) |-> LowerChar(text[i])]

\* String.prototype.includes
Includes(text, part) ==
    \E i \in 0..(Len(text) - Len(part)) : SubSeq(text, i + 1, i + Len(part)) = part

KeyTerms ==
    { <<"i", "n", "t", "e", "r", "f", "a", "c", "e">>,
      <<"t", "y", "p", "e">>,
      <<"c", "l", "a", "s", "s">>,
      <<"f", "u", "n", "c", "t", "i", "o", "n">>,
      <<"e", "x", "a", "m", "p", "l", "e">>,
      <<"u", "s", "a", "g", "e">> }

\* calculateImportance matching the key terms without section.toLowerCase().
CalculateImportanceCaseSensitive(section, tokens) ==
    2 + (IF \E term \in KeyTerms : Includes(section, term) THEN 2 ELSE 0)
      + (IF \E i \in 1..Len(tokens) : tokens[i].type = "code" THEN 2 ELSE 0)
      + (IF \E i \in 1..Len(tokens) : tokens[i].type = "list" THEN 1 ELSE 0)

\* calculateImportance, in half units: 1 is 2, and the boosts are 2, 2, 1.
CalculateImportance(section, tokens) ==
    2 + (IF \E term \in KeyTerms : Includes(ToLowerCase(section), term) THEN 2 ELSE 0)
      + (IF \E i \in 1..Len(tokens) : tokens[i].type = "code" THEN 2 ELSE 0)
      + (IF \E i \in 1..Len(tokens) : tokens[i].type = "list" THEN 1 ELSE 0)

\* (t as any).text || ''
TextOf(token) == IF "text" \in DOMAIN token THEN token.text ELSE <<>>

\* The chunk pushed for a buffer of tokens under a section title.
MakeChunk(currentSection, buffer) ==
    [content |-> JoinWith([i \in 1..Len(buffer) |-> TextOf(buffer[i])], Newline),
     metadata |-> [section |-> currentSection,
                   importance |-> CalculateImportance(currentSection, buffer)]]

\* A push without the test of the buffer's length.
FlushEvenWhenEmpty(chunks, currentSection, buffer) ==
    Append(chunks, MakeChunk(currentSection, buffer))

\* if (buffer.length > 0) chunks.push(...)
Flush(chunks, currentSection, buffer) ==
    IF Len(buffer) > 0 THEN Append(chunks, MakeChunk(currentSection, buffer)) ELSE chunks

\* The loop without "buffer = []" after a heading's push.
RECURSIVE ChunkLoopKeepingBuffer(_, _, _, _)
ChunkLoopKeepingBuffer(tokens, currentSection, buffer, chunks) ==
    IF tokens = <<>> THEN Flush(chunks, currentSection, buffer)
    ELSE IF Head(tokens).type = "heading"
    THEN ChunkLoopKeepingBuffer(Tail(tokens), Head(tokens).text, buffer,
                                Flush(chunks, currentSection, buffer))
    ELSE ChunkLoopKeepingBuffer(Tail(tokens), currentSection,
                                Append(buffer, Head(tokens)), chunks)

\* The loop over the tokens and the final flush after it.
RECURSIVE ChunkLoop(_, _, _, _)
ChunkLoop(tokens, currentSection, buffer, chunks) ==
    IF tokens = <<>> THEN Flush(chunks, currentSection, buffer)
    ELSE IF Head(tokens).type = "heading"
    THEN ChunkLoop(Tail(tokens), Head(tokens).text, <<>>, Flush(chunks, currentSection, buffer))
    ELSE ChunkLoop(Tail(tokens), currentSection, Append(buffer, Head(tokens)), chunks)

\* processFile without the "Add final section" step: the chunks the loop
\* alone pushes, which are those of the tokens up to the last heading.
ProcessFileChunksWithoutFinalSection(tokens) ==
    LET headings == {i \in 1..Len(tokens) : tokens[i].type = "heading"}
    IN  IF headings = {} THEN <<>>
        ELSE ChunkLoop(SubSeq(tokens, 1,
                              (CHOOSE h \in headings : \A k \in headings : k <= h) - 1),
                       <<>>, <<>>, <<>>)

\* The chunks of the ProcessedDoc processFile returns for a token stream.
ProcessFileChunks(tokens) == ChunkLoop(tokens, <<>>, <<>>, <<>>)

(***************************************************************************)
(* SpecMd: processFile on bounded token streams                            *)
(***************************************************************************)

T_Usage == <<"U", "s", "a", "g", "e">>
T_Notes == <<"N", "o", "t", "e", "s">>

\* The tokens marked.lexer yields at the top level; list and space tokens
\* have no text.
TokenKinds ==
    { [type |-> "heading", text |-> T_Usage],
      [type |-> "heading", text |-> T_Notes],
      [type |-> "paragraph", text |-> W_enum],
      [type |-> "code", text |-> W_void],
      [type |-> "list"],
      [type |-> "space"] }

\* The most tokens in a file.
MaxTokens == 4

\* What the lexer can yield for trimmed text: a space token stands for blank
\* lines after a paragraph or a list and before more text, and two
\* paragraphs are never adjacent.
WellLexed(tokens) ==
    \A i \in 1..Len(tokens) :
        /\ tokens[i].type = "space" =>
              /\ 1 < i /\ i < Len(tokens)
              /\ tokens[i - 1].type \in {"paragraph", "list"}
        /\ (tokens[i].type = "paragraph" /\ i > 1) => tokens[i - 1].type /= "paragraph"

TokenStreams ==
    {tokens \in UNION {[1..n -> TokenKinds] : n \in 0..MaxTokens} : WellLexed(tokens)}

InitMd ==
    /\ mdTokens \in TokenStreams
    /\ mdChunks = [kind |-> "idle"]
    /\ IndexIdle
    /\ QueryIdle
    /\ DirIdle
    /\ CacheIdle
    /\ ServerIdle

\* processFile, from the lexed tokens to the chunks of the returned document.
ProcessFile ==
    /\ mdChunks.kind = "idle"
    /\ mdChunks' = [kind |-> "doc", chunks |-> ProcessFileChunks(mdTokens)]
    /\ UNCHANGED <<mdTokens, indexVars, queryVars, dirVars, cacheVars,
                   flightVars, svcVars, toolVars, limiterVars>>

NextMd == ProcessFile

SpecMd == InitMd /\ [][NextMd]_vars

(***************************************************************************)
(* MarkdownProcessor.processDirectory and processAllDocs                   *)
(***************************************************************************)

Slash == "/"

\* String.prototype.endsWith
EndsWith(text, suffix) ==
    /\ Len(suffix) <= Len(text)
    /\ SubSeq(text, Len(text) - Len(suffix) + 1, Len(text)) = suffix

\* path.join of a directory and an entry name.
JoinPath(dirPath, name) == dirPath \o <<Slash>> \o name

MdExtension == <<".", "m", "d">>

\* The directory names processDirectory does not enter.
SkippedDirectories ==
    { <<"t", "e", "m", "p", "l", "a", "t", "e", "s">>,
      <<"d", "i", "a", "g", "r", "a", "m", "s">>,
      <<"s", "c", "r", "i", "p", "t", "s">> }

\* What processFile resolves to for a file it can read and parse; of the
\* ProcessedDoc only the metadata that tells documents apart is kept.
ProcessedDoc(filePath, category) ==
    [metadata |-> [category |-> category, path |-> filePath]]

\* processFile: it rejects when readFile, stat or the lexer throws.
ProcessFileResult(entry, filePath, category) ==
    IF entry.readable
    THEN [error |-> "none", docs |-> <<ProcessedDoc(filePath, category)>>]
    ELSE [error |-> "processFile", docs |-> <<>>]

\* processDirectory calls itself for a directory entry.
RECURSIVE ProcessDirectory(_, _, _)

\* The loop of processDirectory over the entries readdir gave: a rejection
\* of the recursive call or of processFile is not caught, so it ends the
\* loop and the results so far are lost.
RECURSIVE ProcessEntries(_, _, _, _)
ProcessEntries(entries, dirPath, category, results) ==
    IF entries = <<>> THEN [error |-> "none", docs |-> results]
    ELSE LET entry == Head(entries)
             fullPath == JoinPath(dirPath, entry.name)
         IN  IF entry.kind = "dir"
             THEN IF entry.name \in SkippedDirectories
                  THEN ProcessEntries(Tail(entries), dirPath, category, results)
                  ELSE LET sub == ProcessDirectory(entry, fullPath, category)
                       IN  IF sub.error /= "none" THEN [error |-> sub.error, docs |-> <<>>]
                           ELSE ProcessEntries(Tail(entries), dirPath, category,
                                               results \o sub.docs)
             ELSE IF EndsWith(entry.name, MdExtension)
             THEN LET r == ProcessFileResult(entry, fullPath, category)
                  IN  IF r.error /= "none" THEN [error |-> r.error, docs |-> <<>>]
                      ELSE ProcessEntries(Tail(entries), dirPath, category,
                                          results \o r.docs)
             ELSE ProcessEntries(Tail(entries), dirPath, category, results)

\* processDirectory: readdir may reject.
ProcessDirectory(dir, dirPath, category) ==
    IF ~dir.readable THEN [error |-> "readdir", docs |-> <<>>]
    ELSE ProcessEntries(dir.entries, dirPath, category, <<>>)

\* The categoryPaths of the model: two categories with one path each, in
\* the order of Object.entries.
CategoryPaths ==
    << [category |-> "handbook", path |-> <<"h">>],
       [category |-> "reference", path |-> <<"r">>] >>

\* The loops of processAllDocs: a path whose processDirectory rejects is
\* logged and adds nothing.
RECURSIVE ProcessAllDocsLoop(_, _, _)
ProcessAllDocsLoop(paths, tree, docs) ==
    IF paths = <<>> THEN docs
    ELSE LET r == ProcessDirectory(tree[Head(paths).path], Head(paths).path,
                                   Head(paths).category)
         IN  ProcessAllDocsLoop(Tail(paths), tree,
                                IF r.error = "none" THEN docs \o r.docs ELSE docs)

ProcessAllDocsResult(tree) ==
    [kind |-> "docs", docs |-> ProcessAllDocsLoop(CategoryPaths, tree, <<>>)]

(***************************************************************************)
(* SpecDirs: processAllDocs on bounded directory trees                     *)
(***************************************************************************)

N_a == <<"a", ".", "m", "d">>
N_b == <<"b", ".", "m", "d">>
N_txt == <<"n", ".", "t", "x", "t">>
N_sub == <<"s", "u", "b">>
N_templates == <<"t", "e", "m", "p", "l", "a", "t", "e", "s">>

File(name, readable) == [kind |-> "file", name |-> name, readable |-> readable]
Dir(name, readable, entries) ==
    [kind |-> "dir", name |-> name, readable |-> readable, entries |-> entries]

\* Files: a.md can be read, b.md cannot, n.txt is no markdown file.
FileKinds == {File(N_a, TRUE), File(N_b, FALSE), File(N_txt, TRUE)}

\* Directories below a root: sub, readable with at most one file or not
\* readable, and templates, which is skipped.
SubDirKinds ==
    {Dir(N_sub, TRUE, <<>>), Dir(N_sub, FALSE, <<>>)}
        \cup {Dir(N_sub, TRUE, <<f>>) : f \in {File(N_a, TRUE), File(N_b, FALSE)}}
        \cup {Dir(N_templates, TRUE, <<File(N_b, FALSE)>>)}

\* The most entries in a category root.
MaxEntries == 2

\* The listings readdir can give for a root: entries with distinct names.
RootListings ==
    {l \in UNION {[1..n -> FileKinds \cup SubDirKinds] : n \in 0..MaxEntries} :
        \A i, j \in 1..Len(l) : i /= j => l[i].name /= l[j].name}

RootDirs ==
    {Dir(<<>>, TRUE, l) : l \in RootListings} \cup {Dir(<<>>, FALSE, <<>>)}

RootPaths == {CategoryPaths[i].path : i \in 1..Len(CategoryPaths)}

InitDirs ==
    /\ docsTree \in [RootPaths -> RootDirs]
    /\ allDocs = [kind |-> "idle"]
    /\ IndexIdle
    /\ QueryIdle
    /\ MdIdle
    /\ CacheIdle
    /\ ServerIdle

\* processAllDocs(categoryPaths), from the call to the resolved list.
ProcessAllDocs ==
    /\ allDocs.kind = "idle"
    /\ allDocs' = ProcessAllDocsResult(docsTree)
    /\ UNCHANGED <<docsTree, indexVars, queryVars, mdVars, cacheVars,
                   flightVars, svcVars, toolVars, limiterVars>>

NextDirs == ProcessAllDocs

SpecDirs == InitDirs /\ [][NextDirs]_vars

(***************************************************************************)
(* Cache (utils/cache.ts): file names                                      *)
(***************************************************************************)

\* The UTF-8 byte of a character, for the characters the model's keys use.
CharCode(c) ==
    CASE c = "a" -> 97
      [] c = "b" -> 98
      [] c = "?" -> 63

\* Buffer.from(key): the bytes of a string.
BufferFrom(key) == [i \in 1..Len(key) |-> CharCode(key[i])]

\* The base64 alphabet of Buffer.toString('base64'): the digits 62 and 63
\* are "+" and "/".
Base64Alphabet ==
    << "A", "B", "C", "D", "E", "F", "G", "H", "I", "J", "K", "L", "M",
       "N", "O", "P", "Q", "R", "S", "T", "U", "V", "W", "X", "Y", "Z",
       "a", "b", "c", "d", "e", "f", "g", "h", "i", "j", "k", "l", "m",
       "n", "o", "p", "q", "r", "s", "t", "u", "v", "w", "x", "y", "z",
       "0", "1", "2", "3", "4", "5", "6", "7", "8", "9", "+", "/" >>

Base64Digit(n) == Base64Alphabet[n + 1]

\* Buffer.toString('base64'): three bytes give four digits, and the last
\* one or two bytes are padded with "=".
RECURSIVE ToBase64(_)
ToBase64(bytes) ==
    IF bytes = <<>> THEN <<>>
    ELSE IF Len(bytes) = 1
    THEN <<Base64Digit(bytes[1] \div 4), Base64Digit((bytes[1] % 4) * 16), "=", "=">>
    ELSE IF Len(bytes) = 2
    THEN <<Base64Digit(bytes[1] \div 4),
           Base64Digit((bytes[1] % 4) * 16 + bytes[2] \div 16),
           Base64Digit((bytes[2] % 16) * 4), "=">>
    ELSE <<Base64Digit(bytes[1] \div 4),
           Base64Digit((bytes[1] % 4) * 16 + bytes[2] \div 16),
           Base64Digit((bytes[2] % 16) * 4 + bytes[3] \div 64),
           Base64Digit(bytes[3] % 64)>>
         \o ToBase64(SubSeq(bytes, 4, Len(bytes)))

\* join(process.cwd(), 'cache')
DiskCachePath == <<"c", "a", "c", "h", "e">>

JsonExtension == <<".", "j", "s", "o", "n">>

GetDiskPath(key) == JoinPath(DiskCachePath, ToBase64(BufferFrom(key)) \o JsonExtension)

\* The positions of the separators of a path.
SlashPositions(path) == {i \in 1..Len(path) : path[i] = Slash}

\* path.dirname: the path up to its last separator.
Dirname(path) ==
    SubSeq(path, 1, (CHOOSE i \in SlashPositions(path) :
                        \A j \in SlashPositions(path) : j <= i) - 1)

(***************************************************************************)
(* Cache: the memory tier                                                  *)
(***************************************************************************)

\* config.maxMemoryEntries: the model runs the cache with room for 2.
MaxMemoryEntries == 2

\* config.maxDiskSize, in the unit of the model's file sizes.
MaxDiskSize == 2

\* config.memoryCacheDuration and config.diskCacheDuration, in ms.
MemoryCacheDuration == 3600000
DiskCacheDuration == 86400000

Value(data, at) == [kind |-> "value", data |-> data, at |-> at]
Miss(at) == [kind |-> "null", at |-> at]

\* memoryCache is the Map as the sequence of its entries in insertion
\* order, each [key, data, timestamp].
MemKeys(mem) == {mem[i].key : i \in 1..Len(mem)}
MemIndex(mem, key) == CHOOSE i \in 1..Len(mem) : mem[i].key = key
MemGet(mem, key) == mem[MemIndex(mem, key)]

\* Map.delete
MemDelete(mem, key) ==
    IF key \in MemKeys(mem)
    THEN SubSeq(mem, 1, MemIndex(mem, key) - 1)
            \o SubSeq(mem, MemIndex(mem, key) + 1, Len(mem))
    ELSE mem

\* Map.set: an existing key keeps its place in the order.
MemSet(mem, key, entry) ==
    IF key \in MemKeys(mem)
    THEN [mem EXCEPT ![MemIndex(mem, key)] = entry]
    ELSE Append(mem, entry)

\* The first entry of the entries sorted by ascending timestamp: the sort
\* is stable, so among the oldest it is the first in insertion order.
OldestKey(mem) ==
    mem[CHOOSE i \in 1..Len(mem) :
            /\ \A j \in 1..Len(mem) : mem[i].timestamp <= mem[j].timestamp
            /\ \A j \in 1..(i - 1) : mem[j].timestamp > mem[i].timestamp].key

\* setMemoryCache without the eviction.
SetMemoryCacheUnbounded(mem, key, data, t) ==
    MemSet(mem, key, [key |-> key, data |-> data, timestamp |-> t])

\* setMemoryCache
SetMemoryCache(mem, key, data, t) ==
    MemSet(IF Len(mem) >= MaxMemoryEntries THEN MemDelete(mem, OldestKey(mem)) ELSE mem,
           key, [key |-> key, data |-> data, timestamp |-> t])

(***************************************************************************)
(* Cache: the disk tier                                                    *)
(***************************************************************************)

\* The length of JSON.stringify(entry), in the model's unit.
SizeOf(data) == IF data = "v2" THEN 2 ELSE 1

\* A file written by set: the serialized entry, its mtime and its size.
EntryFile(path, data, t) ==
    [path |-> path, content |-> [kind |-> "entry", data |-> data, timestamp |-> t],
     mtime |-> t, size |-> SizeOf(data)]

\* A file a failed writeFile left truncated: JSON.parse throws on it.
TruncatedFile(path, t) ==
    [path |-> path, content |-> [kind |-> "truncated"], mtime |-> t, size |-> 0]

Exists(files, path) == \E f \in files : f.path = path
FileAt(files, path) == CHOOSE f \in files : f.path = path
Without(files, path) == {f \in files : f.path /= path}

\* fs.writeFile creates or replaces a file of an existing directory; the
\* only directory is the cache directory.
CanWrite(path) == SlashPositions(path) /= {} /\ Dirname(path) = DiskCachePath

(***************************************************************************)
(* Cache.get, Cache.set, Cache.clear                                       *)
(***************************************************************************)

GetFaults == {"none", "readFile", "unlink"}
SetFaults == {"none", "writeFile"}
CleanupFaults == {"none", "readdir", "unlink"}
ClearFaults == {"none", "rm"}

\* The part of get after the memory tier with the unlink outside the try.
GetFromDiskUnlinkUncaught(mem, files, key, t, fault) ==
    LET path == GetDiskPath(key)
    IN  IF fault = "readFile" \/ ~Exists(files, path)
        THEN [mem |-> mem, files |-> files, ret |-> Miss("caught")]
        ELSE IF FileAt(files, path).content.kind /= "entry"
        THEN [mem |-> mem, files |-> files, ret |-> Miss("caught")]
        ELSE IF t - FileAt(files, path).content.timestamp > DiskCacheDuration
        THEN IF fault = "unlink"
             THEN [mem |-> mem, files |-> files, ret |-> Rejected(fault)]
             ELSE [mem |-> mem, files |-> Without(files, path), ret |-> Miss("stale")]
        ELSE [mem |-> SetMemoryCache(mem, key, FileAt(files, path).content.data, t),
              files |-> files,
              ret |-> Value(FileAt(files, path).content.data, "promoted")]

\* The disk tier of get, lines 68-83: readFile, JSON.parse, the age test
\* with unlink, the promotion; whatever throws is caught.
GetFromDisk(mem, files, key, t, fault) ==
    LET path == GetDiskPath(key)
    IN  IF fault = "readFile" \/ ~Exists(files, path)
        THEN [mem |-> mem, files |-> files, ret |-> Miss("caught")]
        ELSE IF FileAt(files, path).content.kind /= "entry"
        THEN [mem |-> mem, files |-> files, ret |-> Miss("caught")]
        ELSE IF t - FileAt(files, path).content.timestamp > DiskCacheDuration
        THEN IF fault = "unlink"
             THEN [mem |-> mem, files |-> files, ret |-> Miss("caught")]
             ELSE [mem |-> mem, files |-> Without(files, path), ret |-> Miss("stale")]
        ELSE [mem |-> SetMemoryCache(mem, key, FileAt(files, path).content.data, t),
              files |-> files,
              ret |-> Value(FileAt(files, path).content.data, "promoted")]

\* get without the test of the entry's age in the memory tier.
GetWithoutMemoryTtl(mem, files, key, skipDisk, t, fault) ==
    IF key \in MemKeys(mem)
    THEN [mem |-> mem, files |-> files, ret |-> Value(MemGet(mem, key).data, "memory")]
    ELSE IF skipDisk
    THEN [mem |-> mem, files |-> files, ret |-> Miss("skipDisk")]
    ELSE GetFromDisk(mem, files, key, t, fault)

\* get with the disk tier consulted also under skipDisk.
GetIgnoringSkipDisk(mem, files, key, skipDisk, t, fault) ==
    IF key \in MemKeys(mem) /\ t - MemGet(mem, key).timestamp <= MemoryCacheDuration
    THEN [mem |-> mem, files |-> files, ret |-> Value(MemGet(mem, key).data, "memory")]
    ELSE GetFromDisk(MemDelete(mem, key), files, key, t, fault)

\* Cache.get(key, {skipDisk})
GetResult(mem, files, key, skipDisk, t, fault) ==
    IF key \in MemKeys(mem) /\ t - MemGet(mem, key).timestamp <= MemoryCacheDuration
    THEN [mem |-> mem, files |-> files, ret |-> Value(MemGet(mem, key).data, "memory")]
    ELSE IF skipDisk
    THEN [mem |-> MemDelete(mem, key), files |-> files, ret |-> Miss("skipDisk")]
    ELSE GetFromDisk(MemDelete(mem, key), files, key, t, fault)

\* set that writes the file whatever memoryOnly says.
SetIgnoringMemoryOnly(mem, files, key, data, memoryOnly, t, fault) ==
    [mem |-> SetMemoryCache(mem, key, data, t),
     files |-> Without(files, GetDiskPath(key)) \cup {EntryFile(GetDiskPath(key), data, t)},
     cleanup |-> TRUE]

\* Cache.set(key, data, {memoryOnly}): the memory tier first; then, unless
\* memoryOnly, writeFile and the start of a cleanup pass, with a failure of
\* writeFile caught. `cleanup` tells whether a pass was started.
SetResult(mem, files, key, data, memoryOnly, t, fault) ==
    LET path == GetDiskPath(key)
        mem2 == SetMemoryCache(mem, key, data, t)
    IN  IF memoryOnly THEN [mem |-> mem2, files |-> files, cleanup |-> FALSE]
        ELSE IF ~CanWrite(path) THEN [mem |-> mem2, files |-> files, cleanup |-> FALSE]
        ELSE IF fault = "writeFile"
        THEN [mem |-> mem2, files |-> Without(files, path) \cup {TruncatedFile(path, t)},
              cleanup |-> FALSE]
        ELSE [mem |-> mem2, files |-> Without(files, path) \cup {EntryFile(path, data, t)},
              cleanup |-> TRUE]

\* Cache.clear(): the map is emptied, the directory removed and made again.
ClearResult(mem, files, fault) ==
    [mem |-> <<>>, files |-> IF fault = "rm" THEN files ELSE {}]

(***************************************************************************)
(* Cache.cleanupDiskCache                                                  *)
(***************************************************************************)

\* fileStats after the sort: the files of the directory, newest first; files
\* of equal mtime come in the order readdir gave them, which is any order.
SortedFileStats(files) ==
    {l \in [1..Cardinality(files) -> files] :
        /\ \A i, j \in 1..Len(l) : i /= j => l[i] /= l[j]
        /\ \A i, j \in 1..Len(l) : i < j => l[i].mtime >= l[j].mtime}

\* The loop with the test made on the sizes of the files kept so far only.
RECURSIVE CleanupLoopCountingKept(_, _, _)
CleanupLoopCountingKept(fileStats, totalSize, files) ==
    IF fileStats = <<>> THEN files
    ELSE IF totalSize > MaxDiskSize
    THEN CleanupLoopCountingKept(Tail(fileStats), totalSize, Without(files, Head(fileStats).path))
    ELSE CleanupLoopCountingKept(Tail(fileStats), totalSize + Head(fileStats).size, files)

\* for (const { path, stats } of fileStats): the sizes add up, and every
\* file met with the sum above maxDiskSize is unlinked.
RECURSIVE CleanupLoop(_, _, _)
CleanupLoop(fileStats, totalSize, files) ==
    IF fileStats = <<>> THEN files
    ELSE IF totalSize + Head(fileStats).size > MaxDiskSize
    THEN CleanupLoop(Tail(fileStats), totalSize + Head(fileStats).size,
                     Without(files, Head(fileStats).path))
    ELSE CleanupLoop(Tail(fileStats), totalSize + Head(fileStats).size, files)

\* cleanupDiskCache: a failing readdir ends the pass at once, a failing
\* unlink at the first file to delete; both are caught.
CleanupResult(files, fileStats, fault) ==
    IF fault = "none" THEN CleanupLoop(fileStats, 0, files) ELSE files

(***************************************************************************)
(* The operations on one Cache over one cache directory                    *)
(***************************************************************************)

K_a == <<"a">>
K_b == <<"b">>
K_aaq == <<"a", "a", "?">>

\* The keys of the model; the base64 form of the last one holds a "/".
Keys == {K_a, K_b, K_aaq}

Values == {"v1", "v2"}

\* The instants at which the model looks at the clock: the start, the
\* memory TTL and the disk TTL after it, and 1 ms after each.
TimePoints ==
    {0, MemoryCacheDuration, MemoryCacheDuration + 1,
     DiskCacheDuration, DiskCacheDuration + 1}

NoFault == {"none"}

\* No set was made on a key yet.
NeverSet == [kind |-> "never"]

CacheStart ==
    /\ memoryCache = <<>>
    /\ now = 0
    /\ cacheCall = [op |-> "new"]
    /\ cacheRet = Void
    /\ lastSet = [key \in Keys |-> NeverSet]
    /\ IndexIdle
    /\ QueryIdle
    /\ MdIdle
    /\ DirIdle

Get(keys, faults) ==
    \E key \in keys, skipDisk \in BOOLEAN, fault \in faults :
        \E r \in {GetResult(memoryCache, diskFiles, key, skipDisk, now, fault)} :
            /\ memoryCache' = r.mem
            /\ diskFiles' = r.files
            /\ cacheCall' = [op |-> "get", key |-> key, skipDisk |-> skipDisk,
                             fault |-> fault]
            /\ cacheRet' = r.ret
            /\ UNCHANGED <<now, cleanupPending, lastSet, indexVars, queryVars, mdVars, dirVars,
                           flightVars, svcVars, toolVars, limiterVars>>

Set(keys, values, faults) ==
    \E key \in keys, data \in values, memoryOnly \in BOOLEAN, fault \in faults :
        \E r \in {SetResult(memoryCache, diskFiles, key, data, memoryOnly, now, fault)} :
            /\ memoryCache' = r.mem
            /\ diskFiles' = r.files
            /\ cleanupPending' = (cleanupPending \/ r.cleanup)
            /\ cacheCall' = [op |-> "set", key |-> key, data |-> data,
                             memoryOnly |-> memoryOnly, fault |-> fault]
            /\ cacheRet' = Void
            /\ lastSet' = [lastSet EXCEPT ![key] = [kind |-> "set", data |-> data,
                                                   at |-> now]]
            /\ UNCHANGED <<now, indexVars, queryVars, mdVars, dirVars,
                           flightVars, svcVars, toolVars, limiterVars>>

Clear(faults) ==
    \E fault \in faults :
        \E r \in {ClearResult(memoryCache, diskFiles, fault)} :
            /\ memoryCache' = r.mem
            /\ diskFiles' = r.files
            /\ cacheCall' = [op |-> "clear", fault |-> fault]
            /\ cacheRet' = Void
            /\ UNCHANGED <<now, cleanupPending, lastSet, indexVars, queryVars, mdVars, dirVars,
                           flightVars, svcVars, toolVars, limiterVars>>

\* The cleanup pass a set started and did not wait for.
Cleanup(faults) ==
    /\ cleanupPending
    /\ \E fault \in faults, fileStats \in SortedFileStats(diskFiles) :
          /\ diskFiles' = CleanupResult(diskFiles, fileStats, fault)
          /\ cacheCall' = [op |-> "cleanup", fault |-> fault, fileStats |-> fileStats]
    /\ cleanupPending' = FALSE
    /\ cacheRet' = Void
    /\ UNCHANGED <<memoryCache, now, lastSet, indexVars, queryVars, mdVars, dirVars,
                   flightVars, svcVars, toolVars, limiterVars>>

\* A new process: Cache.getInstance() builds a cache with an empty map
\* over the directory the last process left.
Restart ==
    /\ memoryCache' = <<>>
    /\ cleanupPending' = FALSE
    /\ cacheCall' = [op |-> "new"]
    /\ cacheRet' = Void
    /\ UNCHANGED <<diskFiles, now, lastSet, indexVars, queryVars, mdVars, dirVars,
                   flightVars, svcVars, toolVars, limiterVars>>

\* Time passes between two operations.
Tick(times) ==
    /\ \E t \in times : t > now /\ now' = t
    /\ cacheCall' = [op |-> "tick"]
    /\ cacheRet' = Void
    /\ UNCHANGED <<memoryCache, diskFiles, cleanupPending, lastSet,
                   indexVars, queryVars, mdVars, dirVars,
                   flightVars, svcVars, toolVars, limiterVars>>

(***************************************************************************)
(* SpecCache: the life of one key, with the clock and failing file         *)
(* operations                                                              *)
(***************************************************************************)

InitCache ==
    /\ CacheStart
    /\ ServerIdle
    /\ diskFiles = {}
    /\ cleanupPending = FALSE

NextCache ==
    \/ Get({K_a}, GetFaults)
    \/ Set({K_a}, Values, SetFaults)
    \/ Clear(ClearFaults)
    \/ Cleanup(CleanupFaults)
    \/ Restart
    \/ Tick(TimePoints)

SpecCache == InitCache /\ [][NextCache]_vars

(***************************************************************************)
(* SpecTiers: sets of both kinds and gets on one key while time passes,    *)
(* in one process and with file operations that succeed                    *)
(***************************************************************************)

NextTiers ==
    \/ Get({K_a}, NoFault)
    \/ Set({K_a}, Values, NoFault)
    \/ Cleanup(NoFault)
    \/ Tick(TimePoints)

SpecTiers == InitCache /\ [][NextTiers]_vars

(***************************************************************************)
(* SpecFlight: clear() called while writeFile calls of earlier sets are    *)
(* still in flight. set and clear are followed through their awaits; the   *)
(* order in which the file system serves writeFile, rm and mkdir is not    *)
(* fixed by the code.                                                      *)
(***************************************************************************)

FlightKeys == {K_a, K_b}

\* The most writeFile calls in flight at once.
MaxInFlight == 2

Paths(files) == {f.path : f \in files}

InitFlight ==
    /\ CacheStart
    /\ diskFiles = {}
    /\ cleanupPending = FALSE
    /\ FlightIdle
    /\ ServiceIdle
    /\ ToolIdle
    /\ LimiterIdle

\* set(key, data, {memoryOnly}) up to its await: the map is updated and,
\* unless memoryOnly, writeFile is started. No set is started once clear
\* has been called.
SetStart ==
    /\ clearing.pc = "none"
    /\ Cardinality(inFlight) < MaxInFlight
    /\ \E key \in FlightKeys, data \in {"v1"}, memoryOnly \in BOOLEAN :
          /\ memoryCache' = SetMemoryCache(memoryCache, key, data, now)
          /\ inFlight' = IF memoryOnly THEN inFlight
                         ELSE inFlight \cup {[path |-> GetDiskPath(key), data |-> data,
                                              timestamp |-> now]}
          /\ cacheCall' = [op |-> "set", key |-> key, data |-> data,
                           memoryOnly |-> memoryOnly, fault |-> "none"]
          /\ lastSet' = [lastSet EXCEPT ![key] = [kind |-> "set", data |-> data,
                                                 at |-> now]]
    /\ cacheRet' = Void
    /\ UNCHANGED <<diskFiles, now, cleanupPending, clearing,
                   indexVars, queryVars, mdVars, dirVars, svcVars, toolVars, limiterVars>>

\* A writeFile in flight settles: the file is written and a cleanup pass
\* is started, or, while the directory is removed and not yet made again,
\* writeFile fails and set's catch logs.
WriteSettles ==
    /\ \E w \in inFlight :
          /\ inFlight' = inFlight \ {w}
          /\ cacheCall' = [op |-> "writeFile", path |-> w.path]
          /\ IF clearing.pc = "mkdir"
             THEN UNCHANGED <<diskFiles, cleanupPending>>
             ELSE /\ diskFiles' = Without(diskFiles, w.path)
                                      \cup {EntryFile(w.path, w.data, w.timestamp)}
                  /\ cleanupPending' = TRUE
    /\ cacheRet' = Void
    /\ UNCHANGED <<memoryCache, now, lastSet, clearing,
                   indexVars, queryVars, mdVars, dirVars, svcVars, toolVars, limiterVars>>

\* clear() up to its first await: the map is emptied and rm is started on
\* the directory with the files it holds.
ClearStart ==
    /\ clearing.pc = "none"
    /\ memoryCache' = <<>>
    /\ clearing' = [pc |-> "rm", seen |-> Paths(diskFiles)]
    /\ cacheCall' = [op |-> "clearStart"]
    /\ cacheRet' = Void
    /\ UNCHANGED <<diskFiles, now, cleanupPending, lastSet, inFlight,
                   indexVars, queryVars, mdVars, dirVars, svcVars, toolVars, limiterVars>>

\* rm settles. It removes the directory with everything in it and
\* initDiskCache is called; or a file that was created while rm ran makes
\* its rmdir fail, clear's catch logs and clear resolves with that file
\* left.
RmSettles ==
    /\ clearing.pc = "rm"
    /\ \/ /\ diskFiles' = {}
          /\ clearing' = [pc |-> "mkdir"]
          /\ cacheCall' = [op |-> "rm"]
       \/ /\ Paths(diskFiles) \ clearing.seen /= {}
          /\ diskFiles' = {f \in diskFiles : f.path \notin clearing.seen}
          /\ clearing' = [pc |-> "resolved"]
          /\ cacheCall' = [op |-> "clear", error |-> "ENOTEMPTY"]
    /\ cacheRet' = Void
    /\ UNCHANGED <<memoryCache, now, cleanupPending, lastSet, inFlight,
                   indexVars, queryVars, mdVars, dirVars, svcVars, toolVars, limiterVars>>

\* mkdir settles and clear resolves.
MkdirSettles ==
    /\ clearing.pc = "mkdir"
    /\ clearing' = [pc |-> "resolved"]
    /\ cacheCall' = [op |-> "clear", error |-> "none"]
    /\ cacheRet' = Void
    /\ UNCHANGED <<memoryCache, diskFiles, now, cleanupPending, lastSet, inFlight,
                   indexVars, queryVars, mdVars, dirVars, svcVars, toolVars, limiterVars>>

NextFlight ==
    \/ SetStart
    \/ WriteSettles
    \/ ClearStart
    \/ RmSettles
    \/ MkdirSettles
    \/ Get(FlightKeys, NoFault)
    \/ Cleanup(NoFault)

SpecFlight == InitFlight /\ [][NextFlight]_vars

(***************************************************************************)
(* SpecKeys: several keys in a cache with room for MaxMemoryEntries        *)
(***************************************************************************)

\* The instants of SpecKeys: the start and 1 ms later.
KeyTimes == {0, 1}

NextKeys ==
    \/ Get(Keys, NoFault)
    \/ Set(Keys, {"v1"}, NoFault)
    \/ Clear(NoFault)
    \/ Cleanup(NoFault)
    \/ Restart
    \/ Tick(KeyTimes)

SpecKeys == InitCache /\ [][NextKeys]_vars

(***************************************************************************)
(* SpecCleanup: one cleanup pass over a bounded cache directory            *)
(***************************************************************************)

K_ab == <<"a", "b">>
K_ba == <<"b", "a">>

\* The keys whose files the directory may hold, in a fixed order.
CleanupKeys == <<K_a, K_b, K_ab, K_ba>>

\* The most files in the directory.
MaxFiles == 3

\* The mtimes of the files.
CleanupTimes == {0, 1, 2}

\* For each key, no file or a file set wrote at some instant.
Directories ==
    {{fs[i] : i \in {j \in 1..MaxFiles : fs[j].content.kind = "entry"}} :
        fs \in {g \in [1..MaxFiles ->
                          {TruncatedFile(<<>>, 0)}
                             \cup {EntryFile(GetDiskPath(CleanupKeys[k]), d, t) :
                                     k \in 1..MaxFiles, d \in Values, t \in CleanupTimes}] :
                   \A i \in 1..MaxFiles :
                       g[i].content.kind = "entry" =>
                           g[i].path = GetDiskPath(CleanupKeys[i])}}

InitCleanup ==
    /\ CacheStart
    /\ ServerIdle
    /\ diskFiles \in Directories
    /\ cleanupPending = TRUE

NextCleanup == Cleanup(CleanupFaults)

SpecCleanup == InitCleanup /\ [][NextCleanup]_vars

(***************************************************************************)
(* The docs services: TypeScriptDocsService, DiscordDocsService and        *)
(* NodeDocsService share the code modelled here                            *)
(***************************************************************************)

\* `${this.getServiceName()}:${JSON.stringify(args)}`: the service name, the
\* colon and the properties of args in their order; category is left out
\* of the JSON text when it is undefined.
GetCacheKey(serviceName, args) ==
    <<serviceName, ":", "{", "query", ":">> \o args.query
        \o (IF args.category = NoCategory THEN <<>>
            ELSE <<",", "category", ":", args.category>>)
        \o <<"}">>

\* docsPath of the TypeScript service, relative to process.cwd()
DocsPath == "ts-docs/copy/en"

\* The map over searchResults in the service's search: title, url,
\* category and score of every hit.
ToSearchResults(hits) ==
    [i \in 1..Len(hits) |->
        [title |-> hits[i].title,
         url |-> <<"file://", DocsPath, hits[i].path>>,
         category |-> hits[i].category,
         score |-> hits[i].score]]

\* What search computes from the index for args.
IndexAnswer(ms, args) == ToSearchResults(Search(ms, args.query, args.category))

\* A process that has not asked for the service yet.
NoService(starts) ==
    [kind |-> "process", instance |-> FALSE, init |-> "none", loaded |-> "unknown",
     log |-> <<>>, docs |-> <<>>, starts |-> starts, lookups |-> 0]

\* getInstance that constructs a service on every call.
GetInstanceAlwaysConstructing(svc) ==
    [svc EXCEPT !.instance = TRUE, !.init = "loadIndex", !.loaded = "unknown",
                !.log = Append(@, "loadIndex"), !.lookups = @ + 1]

\* getInstance: the constructor runs when the static instance is not set; it
\* calls initialize, which runs up to its first await, inside loadIndex.
GetInstanceResult(svc) ==
    IF svc.instance
    THEN [svc EXCEPT !.lookups = @ + 1]
    ELSE [svc EXCEPT !.instance = TRUE, !.init = "loadIndex",
                     !.log = Append(@, "loadIndex"), !.lookups = @ + 1]

\* initialize after loadIndex resolved: done when it returned true, else
\* processAllDocs is called.
AfterLoad(svc, loaded) ==
    IF loaded
    THEN [svc EXCEPT !.loaded = "true", !.init = "done"]
    ELSE [svc EXCEPT !.loaded = "false", !.init = "processAllDocs",
                     !.log = Append(@, "processAllDocs")]

(***************************************************************************)
(* SpecService: one docs service from process start, with searches that    *)
(* arrive while initialize is still running                                *)
(***************************************************************************)

\* The most processes started over the same index file, and the most
\* calls of getInstance in one process.
MaxStarts == 2
MaxLookups == 2

\* What processAllDocs can resolve to: no document (no root directory can
\* be read), or the documents of the files found.
ServiceDocLists == {<<>>, <<DocB>>, <<DocC, DocB2>>}

ServiceArgs == {[query |-> q, category |-> NoCategory] : q \in ProbeQueries}

\* The instants of SpecService: the start, and later than the memory TTL.
ServiceTimes == {0, MemoryCacheDuration + 1}

InitService ==
    /\ IndexIdle
    /\ QueryIdle
    /\ MdIdle
    /\ DirIdle
    /\ CacheIdle
    /\ FlightIdle
    /\ ToolIdle
    /\ LimiterIdle
    /\ service = NoService(1)
    /\ request = [kind |-> "idle"]

\* A new process over the same files: no service yet, an empty cache map.
ProcessStart ==
    /\ service.starts < MaxStarts
    /\ service' = NoService(service.starts + 1)
    /\ request' = [kind |-> "idle"]
    /\ searchIndex' = NewMiniSearch(ConstructorOptions)
    /\ memoryCache' = <<>>
    /\ call' = [op |-> "new"]
    /\ ret' = Void
    /\ UNCHANGED <<indexFile, now, diskFiles, cleanupPending, cacheCall, cacheRet, lastSet,
                   queryVars, mdVars, dirVars, flightVars, toolVars, limiterVars>>

\* TypeScriptDocsService.getInstance(), by the registry or anyone else.
GetInstance ==
    /\ service.lookups < MaxLookups
    /\ service' = GetInstanceResult(service)
    /\ searchIndex' = IF service.instance THEN searchIndex
                      ELSE NewMiniSearch(ConstructorOptions)
    /\ call' = [op |-> "getInstance"]
    /\ ret' = Void
    /\ UNCHANGED <<indexFile, request, queryVars, mdVars, dirVars, cacheVars,
                   flightVars, toolVars, limiterVars>>

\* initialize: loadIndex settles and the code after the await runs.
InitLoadIndex ==
    /\ service.init = "loadIndex"
    /\ \E r \in {LoadIndexResult(searchIndex, indexFile)} :
          /\ searchIndex' = r.ms
          /\ service' = AfterLoad(service, r.ret.value)
          /\ call' = [op |-> "loadIndex"]
          /\ ret' = r.ret
    /\ UNCHANGED <<indexFile, request, queryVars, mdVars, dirVars, cacheVars,
                   flightVars, toolVars, limiterVars>>

\* initialize: processAllDocs resolves and buildIndex is called; it runs up
\* to the await of saveIndex, so addAll has run.
InitProcessAllDocs ==
    /\ service.init = "processAllDocs"
    /\ \E docs \in ServiceDocLists :
          /\ searchIndex' = MsAddAll(searchIndex, FlatMapDocs(docs)).ms
          /\ service' = [service EXCEPT !.init = "buildIndex", !.docs = docs,
                                        !.log = Append(@, "buildIndex")]
          /\ call' = [op |-> "buildIndex", docs |-> docs, fault |-> "pending"]
          /\ ret' = Void
    /\ UNCHANGED <<indexFile, request, queryVars, mdVars, dirVars, cacheVars,
                   flightVars, toolVars, limiterVars>>

\* initialize: saveIndex settles; a rejection becomes the McpError that
\* the constructor's catch logs.
InitSaveIndex ==
    /\ service.init = "buildIndex"
    /\ \E fault \in Faults :
          \E r \in {SaveIndexResult(searchIndex, indexFile, fault)} :
              /\ indexFile' = r.file
              /\ service' = [service EXCEPT !.init = IF r.ret = Void THEN "done" ELSE "failed"]
              /\ call' = [op |-> "buildIndex", docs |-> service.docs, fault |-> fault]
              /\ ret' = r.ret
    /\ UNCHANGED <<searchIndex, request, queryVars, mdVars, dirVars, cacheVars,
                   flightVars, toolVars, limiterVars>>

\* search(args) up to its first await: cache.get on the key of args. The
\* service never writes its keys to disk, so the disk tier has no file.
ServiceSearchStart ==
    /\ service.instance
    /\ request.kind /= "pending"
    /\ \E args \in ServiceArgs :
          \E r \in {GetResult(memoryCache, diskFiles, GetCacheKey("typescript", args),
                              FALSE, now, "none")} :
              /\ memoryCache' = r.mem
              /\ request' = [kind |-> "pending", args |-> args, cached |-> r.ret,
                             init |-> service.init]
    /\ UNCHANGED <<service, indexVars, diskFiles, now, cleanupPending, cacheCall, cacheRet,
                   lastSet, queryVars, mdVars, dirVars, flightVars, toolVars, limiterVars>>

\* search(args) after cache.get resolved: the cached value when there is one
\* (an empty array is truthy), else the index is searched and the results
\* are cached with memoryOnly.
ServiceSearchFinish ==
    /\ request.kind = "pending"
    /\ IF request.cached.kind = "value"
       THEN /\ request' = [kind |-> "answered", args |-> request.args,
                           results |-> request.cached.data, fromCache |-> TRUE,
                           init |-> request.init]
            /\ UNCHANGED memoryCache
       ELSE \E results \in {IndexAnswer(searchIndex, request.args)} :
                /\ request' = [kind |-> "answered", args |-> request.args,
                               results |-> results, fromCache |-> FALSE,
                               init |-> request.init]
                /\ memoryCache' =
                      SetResult(memoryCache, diskFiles,
                                GetCacheKey("typescript", request.args), results,
                                TRUE, now, "none").mem
    /\ UNCHANGED <<service, indexVars, diskFiles, now, cleanupPending, cacheCall, cacheRet,
                   lastSet, queryVars, mdVars, dirVars, flightVars, toolVars, limiterVars>>

NextService ==
    \/ ProcessStart
    \/ GetInstance
    \/ InitLoadIndex
    \/ InitProcessAllDocs
    \/ InitSaveIndex
    \/ ServiceSearchStart
    \/ ServiceSearchFinish
    \/ Tick(ServiceTimes)

SpecService == InitService /\ [][NextService]_vars

(***************************************************************************)
(* DocsReferenceServer: the CallTool request handler                       *)
(***************************************************************************)

\* JavaScript values of request.params.arguments, by their typeof.
Undefined == [type |-> "undefined"]
Str(text) == [type |-> "string", value |-> text]
Num(n) == [type |-> "number", number |-> n]

\* DocsServiceRegistry.registerDefaultServices
RegisteredServices == {"typescript", "node", "discord"}

\* The tools the ListTools handler names.
ListedTools == {"search_typescript_docs", "search_node_docs"}

\* The categories isValidTypeScriptSearchArgs accepts.
TypeScriptCategories ==
    {"handbook", "reference", "release-notes", "declaration-files", "javascript",
     "configuration", "project-structure", "tooling", "best-practices"}

IsValidTypeScriptSearchArgs(args) ==
    /\ args.query.type = "string"
    /\ Len(args.query.value) > 0
    /\ \/ args.category = Undefined
       \/ args.category.type = "string" /\ args.category.value \in TypeScriptCategories

IsValidNodeDocsSearchArgs(args) ==
    /\ args.query.type = "string"
    /\ Len(args.query.value) > 0
    /\ args.version = Undefined \/ args.version.type = "string"

McpError(code) == [kind |-> "error", code |-> code, service |-> "none"]

\* handleTypeScriptDocsSearch and handleNodeDocsSearch after the validation:
\* getService(name).search(args); an empty result becomes the no-results
\* message, a rejection passes through.
HandleDocsSearch(serviceName, outcome) ==
    IF serviceName \notin RegisteredServices THEN McpError("MethodNotFound")
    ELSE IF outcome.kind = "rejected"
    THEN [kind |-> "error", code |-> outcome.code, service |-> serviceName]
    ELSE IF Len(outcome.results) = 0
    THEN [kind |-> "noResults", service |-> serviceName]
    ELSE [kind |-> "results", results |-> outcome.results, service |-> serviceName]

\* The CallTool handler: the switch over request.params.name; the catch
\* logs and rethrows.
CallTool(name, args, outcome) ==
    CASE name = "search_typescript_docs" ->
            IF IsValidTypeScriptSearchArgs(args)
            THEN HandleDocsSearch("typescript", outcome) ELSE McpError("InvalidParams")
      [] name = "search_node_docs" ->
            IF IsValidNodeDocsSearchArgs(args)
            THEN HandleDocsSearch("node", outcome) ELSE McpError("InvalidParams")
      [] OTHER -> McpError("MethodNotFound")

(***************************************************************************)
(* SpecTools: one CallTool request                                         *)
(***************************************************************************)

ToolNames ==
    {"search_typescript_docs", "search_node_docs", "search_discord_docs", "search_docs"}

ArgQueries == {Str(W_enum), Str(<<>>), Num(1)}
ArgCategories == {Undefined, Str("handbook"), Str("slash-commands")}
ArgVersions == {Undefined, Str("18.0.0"), Num(18)}

ToolRequests ==
    {[name |-> n, arguments |-> [query |-> q, category |-> c, version |-> v]] :
        n \in ToolNames, q \in ArgQueries, c \in ArgCategories, v \in ArgVersions}

\* How the search of the service the request reaches settles: with no
\* result, with results, or with the McpError the service throws.
SearchResult(title) == [title |-> title, category |-> "handbook", score |-> 1000]

ServiceOutcomes ==
    {[kind |-> "resolved", results |-> <<>>],
     [kind |-> "resolved", results |-> <<SearchResult(W_enum)>>],
     [kind |-> "resolved", results |-> <<SearchResult(W_enum), SearchResult(W_type)>>],
     [kind |-> "rejected", code |-> "InternalError"]}

InitTools ==
    /\ IndexIdle
    /\ QueryIdle
    /\ MdIdle
    /\ DirIdle
    /\ CacheIdle
    /\ FlightIdle
    /\ ServiceIdle
    /\ LimiterIdle
    /\ toolRequest \in ToolRequests
    /\ toolResponse = [kind |-> "idle"]

\* The request handler runs from the request to its response or error.
HandleCallTool ==
    /\ toolResponse.kind = "idle"
    /\ \E outcome \in ServiceOutcomes :
          toolResponse' = CallTool(toolRequest.name, toolRequest.arguments, outcome)
    /\ UNCHANGED <<toolRequest, indexVars, queryVars, mdVars, dirVars, cacheVars,
                   flightVars, svcVars, limiterVars>>

NextTools == HandleCallTool

SpecTools == InitTools /\ [][NextTools]_vars

(***************************************************************************)
(* RateLimiter.wait                                                        *)
(***************************************************************************)

\* RATE_LIMIT_WINDOW, in ms
RateLimitWindow == 500

\* The delay wait asks setTimeout for, 0 when it does not sleep.
WaitDelay(t, last) ==
    IF t - last < RateLimitWindow THEN RateLimitWindow - (t - last) ELSE 0

(***************************************************************************)
(* SpecLimiter: asynchronous callers of the one RateLimiter                *)
(***************************************************************************)

Callers == {"c1", "c2"}

\* The most returns of wait in a behaviour.
MaxReturns == 3

\* Date.now() at process start and at the later instants of the model.
StartTime == 1000
LimiterTimes == {1100, 1200, 1500, 1700, 2000}

NotWaiting == [pc |-> "idle"]

InitLimiter ==
    /\ IndexIdle
    /\ QueryIdle
    /\ MdIdle
    /\ DirIdle
    /\ memoryCache = <<>>
    /\ diskFiles = {}
    /\ now = StartTime
    /\ cleanupPending = FALSE
    /\ cacheCall = [op |-> "new"]
    /\ cacheRet = Void
    /\ lastSet = <<>>
    /\ FlightIdle
    /\ ServiceIdle
    /\ ToolIdle
    /\ lastRequestTime = 0
    /\ waiters = [c \in Callers |-> NotWaiting]
    /\ returned = <<>>

\* A caller calls wait(): Date.now() is read and compared; either the
\* caller sleeps, or lastRequestTime is set and wait returns.
WaitCall ==
    \E c \in Callers :
        /\ waiters[c].pc = "idle"
        /\ Len(returned) + Cardinality({d \in Callers : waiters[d].pc = "sleeping"}) < MaxReturns
        /\ IF WaitDelay(now, lastRequestTime) > 0
           THEN /\ waiters' = [waiters EXCEPT
                                  ![c] = [pc |-> "sleeping",
                                          wake |-> now + WaitDelay(now, lastRequestTime)]]
                /\ UNCHANGED <<lastRequestTime, returned>>
           ELSE /\ lastRequestTime' = now
                /\ returned' = Append(returned, now)
                /\ UNCHANGED waiters
        /\ UNCHANGED <<indexVars, queryVars, mdVars, dirVars, cacheVars,
                       flightVars, svcVars, toolVars>>

\* The timer of a sleeping caller has fired: lastRequestTime is set to
\* Date.now() and wait returns.
WakeUp ==
    \E c \in Callers :
        /\ waiters[c].pc = "sleeping"
        /\ now >= waiters[c].wake
        /\ lastRequestTime' = now
        /\ returned' = Append(returned, now)
        /\ waiters' = [waiters EXCEPT ![c] = NotWaiting]
        /\ UNCHANGED <<indexVars, queryVars, mdVars, dirVars, cacheVars,
                       flightVars, svcVars, toolVars>>

NextLimiter == WaitCall \/ WakeUp \/ Tick(LimiterTimes)

SpecLimiter == InitLimiter /\ [][NextLimiter]_vars

(***************************************************************************)
(* Properties of search (Spec)                                             *)
(***************************************************************************)

\* What the engine finds for the last search call before the cut to 5.
Candidates == MsSearch(searchIndex, CleanQuery(call.query), CallSearchOptions, call.category)

\* C1: search returns at most 5 hits, whatever the query, the content of
\* the index and the category filter.
C1_AtMostFiveHits == ret.kind = "hits" => Len(ret.hits) <= 5

\* A search with a category filter for which more than 5 entries match.
C1_Witness ==
    /\ ret.kind = "hits"
    /\ call.category /= NoCategory
    /\ Len(Candidates) > 5
    /\ Len(ret.hits) = 5

\* C2: with a category filter c every hit has stored category c; when no
\* indexed entry carries c the result is empty, and search does not fail.
C2_CategoryFilter ==
    /\ call.op = "search" => ret.kind = "hits"
    /\ (ret.kind = "hits" /\ call.category /= NoCategory) =>
          /\ \A i \in 1..Len(ret.hits) :
                /\ GetStoredFields(searchIndex, ret.hits[i].id).category = call.category
                /\ ret.hits[i].category = call.category
          /\ (\A j \in 1..Len(searchIndex.documents) :
                 searchIndex.documents[j].stored.category /= call.category)
             => ret.hits = <<>>

\* A filtered search that returns hits and leaves out an entry of another
\* category that matches the query.
C2_Witness ==
    /\ ret.kind = "hits"
    /\ call.category = "handbook"
    /\ Len(ret.hits) > 0
    /\ Len(MsSearch(searchIndex, CleanQuery(call.query), CallSearchOptions, NoCategory))
         > Len(Candidates)

\* The importance processFile gave the chunk an index id names.
ChunkImportance(id) ==
    LET doc == CHOOSE d \in Corpus : d.id = id[1]
    IN  doc.chunks[id[2] + 1].metadata.importance

\* C3: hits are in descending score, and hits of equal score in descending
\* chunk importance.
C3_RankedByScoreThenImportance ==
    ret.kind = "hits" =>
        \A i, j \in 1..Len(ret.hits) :
            i < j =>
                /\ ret.hits[i].score >= ret.hits[j].score
                /\ ret.hits[i].score = ret.hits[j].score =>
                      ChunkImportance(ret.hits[i].id) >= ChunkImportance(ret.hits[j].id)

\* The index a fresh builder on the same base path holds after loadIndex.
FreshlyLoaded == LoadIndexResult(NewMiniSearch(ConstructorOptions), indexFile).ms

\* C4: after a buildIndex that saved, a fresh builder that loads the file
\* answers every probe query and category with the same hits (ids, scores,
\* order) as the builder that built the index.
C4_RoundTrip ==
    (call.op = "buildIndex" /\ ret = Void) =>
        \A q \in Queries, c \in Categories :
            Search(FreshlyLoaded, q, c) = Search(searchIndex, q, c)

\* C8: every search runs the engine with prefix matching on, title boost 3,
\* content boost 1 and fuzzy tolerance 0.1 (1 tenth).
C8_SearchOptionsAlways ==
    ret.kind = "hits" =>
        /\ ret.options.prefix = TRUE
        /\ ret.options.boost = [title |-> 3, content |-> 1]
        /\ ret.options.fuzzy = 1

(***************************************************************************)
(* Properties of persistence (Spec)                                        *)
(***************************************************************************)

\* C5: loadIndex never rejects; with the file missing or unparsable it
\* returns false and leaves the in-memory index as it was; it returns true
\* only with the in-memory index replaced by the deserialized one.
C5_LoadIndexSignalsAbsent ==
    [][call'.op = "loadIndex" =>
          /\ ret'.kind = "bool"
          /\ indexFile.kind \in {"missing", "corrupt"} => ret'.value = FALSE
          /\ ret'.value = FALSE => searchIndex' = searchIndex
          /\ ret'.value = TRUE =>
                /\ indexFile.kind = "index"
                /\ searchIndex'.documents = indexFile.documents]_vars

\* loadIndex returned false on a builder that holds entries.
C5_Witness ==
    /\ call.op = "loadIndex"
    /\ ret = [kind |-> "bool", value |-> FALSE]
    /\ Len(searchIndex.documents) > 0

\* C6: when the persist step fails, saveIndex rejects with that error, and
\* so do buildIndex and updateDocs.
C6_SaveFailurePropagates ==
    (call.op \in {"saveIndex", "buildIndex", "updateDocs"} /\ call.fault /= "none") =>
        ret = [kind |-> "rejected", error |-> call.fault]

\* updateDocs ran into a failing writeFile and rejected.
C6_Witness ==
    /\ call.op = "updateDocs"
    /\ call.fault = "writeFile"
    /\ ret.kind = "rejected"

(***************************************************************************)
(* Properties of the query preprocessing (SpecQuery)                       *)
(***************************************************************************)

\* The whitespace-separated tokens of a text.
WhitespaceTokens(text) == LongerThan(SplitOn(text, Whitespace), 0)

\* C7: the query handed to the engine is the first 3, in order, of the
\* whitespace-separated tokens of the raw query that are longer than 2
\* characters; it has at most 3 tokens, none of length 2 or less.
C7_QueryPreprocessing ==
    cleanedQuery.kind \in {"cleaned", "searched"} =>
        /\ cleanedQuery.text =
              JoinWith(Take(LongerThan(WhitespaceTokens(rawQuery), 2), 3), Space)
        /\ Len(WhitespaceTokens(cleanedQuery.text)) <= 3
        /\ \A i \in 1..Len(WhitespaceTokens(cleanedQuery.text)) :
              Len(WhitespaceTokens(cleanedQuery.text)[i]) > 2

(***************************************************************************)
(* Properties of chunking (SpecMd)                                         *)
(***************************************************************************)

HeadingPositions == {i \in 1..Len(mdTokens) : mdTokens[i].type = "heading"}

LastHeading ==
    IF HeadingPositions = {} THEN 0
    ELSE CHOOSE h \in HeadingPositions : \A k \in HeadingPositions : k <= h

\* The tokens after the last heading: the whole file when it has no heading.
TrailingSection == SubSeq(mdTokens, LastHeading + 1, Len(mdTokens))

\* 1 when a token precedes the first heading, else 0.
PreambleCount ==
    IF mdTokens /= <<>> /\ mdTokens[1].type /= "heading" THEN 1 ELSE 0

\* The headings with at least one token before the next heading or the end.
HeadingsWithBody ==
    {i \in HeadingPositions : i < Len(mdTokens) /\ mdTokens[i + 1].type /= "heading"}

BodyStarts ==
    {i \in 1..Len(mdTokens) :
        /\ mdTokens[i].type /= "heading"
        /\ (i = 1 \/ mdTokens[i - 1].type = "heading")}

\* The last position of the run that starts at a.
BodyEnd(a) ==
    CHOOSE b \in a..Len(mdTokens) :
        /\ \A i \in a..b : mdTokens[i].type /= "heading"
        /\ (b = Len(mdTokens) \/ mdTokens[b + 1].type = "heading")

\* The start of the k-th run, in document order.
NthBodyStart(k) ==
    CHOOSE a \in BodyStarts : Cardinality({b \in BodyStarts : b < a}) = k - 1

\* The tokens of the k-th run.
BodyTokens(k) == SubSeq(mdTokens, NthBodyStart(k), BodyEnd(NthBodyStart(k)))

\* The text of the heading right before the k-th run, empty without one.
BodyHeading(k) ==
    IF NthBodyStart(k) = 1 THEN <<>> ELSE mdTokens[NthBodyStart(k) - 1].text

\* C11: the chunks are the maximal runs of tokens between headings, in
\* document order: chunk k holds the texts of all tokens of the k-th run and
\* of no other token, one line per token, under the text of the heading
\* right before the run (the empty string before the first heading).
C11_ChunkingPartitionsTokens ==
    mdChunks.kind = "doc" =>
        /\ Len(mdChunks.chunks) = Cardinality(BodyStarts)
        /\ \A k \in 1..Len(mdChunks.chunks) :
              /\ mdChunks.chunks[k].content =
                    JoinWith([i \in 1..Len(BodyTokens(k)) |-> TextOf(BodyTokens(k)[i])],
                             Newline)
              /\ Len(SplitOn(mdChunks.chunks[k].content, {Newline})) = Len(BodyTokens(k))
              /\ mdChunks.chunks[k].metadata.section = BodyHeading(k)

\* A processed file with a token before the first heading and two sections
\* under different headings, the last one with two tokens.
C11_Witness ==
    /\ mdChunks.kind = "doc"
    /\ Len(mdTokens) = 4
    /\ HeadingPositions = {2}
    /\ Len(mdChunks.chunks) = 2
    /\ mdChunks.chunks[1].metadata.section = <<>>
    /\ mdChunks.chunks[2].metadata.section = mdTokens[2].text

\* Whether a section title contains a term, whatever the case of its letters.
ContainsIgnoringCase(section, term) ==
    \E off \in 0..(Len(section) - Len(term)) :
        \A j \in 1..Len(term) : LowerChar(section[off + j]) = LowerChar(term[j])

\* The three conditions of a chunk's importance, as 0 or 1.
KeyTermBit(k) ==
    IF \E term \in KeyTerms : ContainsIgnoringCase(BodyHeading(k), term) THEN 1 ELSE 0
CodeBit(k) ==
    IF \E i \in 1..Len(BodyTokens(k)) : BodyTokens(k)[i].type = "code" THEN 1 ELSE 0
ListBit(k) ==
    IF \E i \in 1..Len(BodyTokens(k)) : BodyTokens(k)[i].type = "list" THEN 1 ELSE 0

\* C12: in half units, the importance of every chunk is 2, plus 2 for a key
\* term in the section title (any case), plus 2 for a code block among its
\* tokens, plus 1 for a list among them; it is one of 2..7, it does not
\* drop from a chunk to one that meets every condition the first meets, and
\* a chunk meeting all three is exactly 5 above one meeting none.
C12_ImportanceFormula ==
    mdChunks.kind = "doc" =>
        /\ \A k \in 1..Len(mdChunks.chunks) :
              /\ mdChunks.chunks[k].metadata.importance =
                    2 + 2 * KeyTermBit(k) + 2 * CodeBit(k) + ListBit(k)
              /\ mdChunks.chunks[k].metadata.importance \in 2..7
        /\ \A k, m \in 1..Len(mdChunks.chunks) :
              /\ (KeyTermBit(k) <= KeyTermBit(m) /\ CodeBit(k) <= CodeBit(m)
                    /\ ListBit(k) <= ListBit(m))
                 => mdChunks.chunks[k].metadata.importance
                      <= mdChunks.chunks[m].metadata.importance
              /\ (KeyTermBit(k) + CodeBit(k) + ListBit(k) = 0
                    /\ KeyTermBit(m) + CodeBit(m) + ListBit(m) = 3)
                 => mdChunks.chunks[m].metadata.importance
                      = mdChunks.chunks[k].metadata.importance + 5

\* A processed file with a chunk that meets no condition and, under the
\* heading "Usage", a chunk with a code block and a list.
C12_Witness ==
    /\ mdChunks.kind = "doc"
    /\ Len(mdChunks.chunks) = 2
    /\ KeyTermBit(1) + CodeBit(1) + ListBit(1) = 0
    /\ KeyTermBit(2) + CodeBit(2) + ListBit(2) = 3
    /\ mdChunks.chunks[1].metadata.importance = 2
    /\ mdChunks.chunks[2].metadata.importance = 7

(***************************************************************************)
(* Properties of bulk processing (SpecDirs)                                *)
(***************************************************************************)

\* The markdown files of a listing that can be read, as documents.
ReadableDocsIn(entries, dirPath, category) ==
    {ProcessedDoc(JoinPath(dirPath, entries[i].name), category) :
        i \in {j \in 1..Len(entries) :
                  /\ entries[j].kind = "file"
                  /\ entries[j].readable
                  /\ EndsWith(entries[j].name, MdExtension)}}

\* The documents of every file that can be processed: a readable markdown
\* file in a readable root, or in a readable directory of such a root that
\* is not one of the skipped names.
ProcessableDocs ==
    UNION {
        IF ~docsTree[CategoryPaths[c].path].readable THEN {}
        ELSE LET root == docsTree[CategoryPaths[c].path]
                 path == CategoryPaths[c].path
                 cat == CategoryPaths[c].category
             IN  ReadableDocsIn(root.entries, path, cat)
                 \cup UNION {
                     IF /\ root.entries[i].kind = "dir"
                        /\ root.entries[i].readable
                        /\ root.entries[i].name \notin SkippedDirectories
                     THEN ReadableDocsIn(root.entries[i].entries,
                                         JoinPath(path, root.entries[i].name), cat)
                     ELSE {} : i \in 1..Len(root.entries)}
        : c \in 1..Len(CategoryPaths)}

\* C13: processAllDocs resolves, and every file that can be processed is in
\* the list it resolves to, whatever file or directory next to it, in its
\* category root or in another root fails.
C13_FailureIsolation ==
    allDocs.kind /= "idle" =>
        /\ allDocs.kind = "docs"
        /\ \A d \in ProcessableDocs : \E i \in 1..Len(allDocs.docs) : allDocs.docs[i] = d

(***************************************************************************)
(* Properties of the cache with one key (SpecCache)                        *)
(***************************************************************************)

\* Whether the map holds an entry for the key that get still serves at t.
FreshInMemory(mem, key, t) ==
    key \in MemKeys(mem) /\ t - MemGet(mem, key).timestamp <= MemoryCacheDuration

\* What get(key) resolves to on a cache in the given state, for every way
\* of calling it: the set of the results.
GetAnswers(mem, files, key, t) ==
    {GetResult(mem, files, key, skipDisk, t, fault).ret :
        skipDisk \in BOOLEAN, fault \in GetFaults}

\* C14: a set with memoryOnly on a key without disk file creates no file;
\* a get on the same cache then returns the value set, and a get on a cache
\* with an empty map over the same directory returns null.
C14_MemoryOnlyStaysInMemory ==
    [][(/\ cacheCall'.op = "set"
        /\ cacheCall'.memoryOnly
        /\ ~Exists(diskFiles, GetDiskPath(cacheCall'.key)))
       => /\ diskFiles' = diskFiles
          /\ ~Exists(diskFiles', GetDiskPath(cacheCall'.key))
          /\ \A r \in GetAnswers(memoryCache', diskFiles', cacheCall'.key, now') :
                r.kind = "value" /\ r.data = cacheCall'.data
          /\ \A r \in GetAnswers(<<>>, diskFiles', cacheCall'.key, now') :
                r.kind = "null"]_vars

\* A set with memoryOnly replaced the value of a key that has no file.
C14_Witness ==
    /\ cacheCall.op = "set"
    /\ cacheCall.memoryOnly
    /\ cacheCall.data = "v2"
    /\ now > 0
    /\ ~Exists(diskFiles, GetDiskPath(cacheCall.key))
    /\ MemGet(memoryCache, cacheCall.key).data = "v2"

\* C15 as stated: a get later than memoryCacheDuration after the latest set
\* of its key returns null.
C15_NullAfterMemoryTtl ==
    [][(/\ cacheCall'.op = "get"
        /\ lastSet[cacheCall'.key].kind = "set"
        /\ now > lastSet[cacheCall'.key].at + MemoryCacheDuration)
       => cacheRet'.kind = "null"]_vars

\* C15, amended: get answers from the map only with an entry whose
\* timestamp is at most memoryCacheDuration in the past; an older entry is
\* deleted from the map and the disk tier decides: null with skipDisk or
\* without a file for the key, else the data of a readable file within
\* diskCacheDuration. A key without file whose entry was set at 0 is served
\* at 1 hour and is null at 1 hour + 1 ms.
C15_MemoryEntryTtl ==
    [][cacheCall'.op = "get" =>
          LET key == cacheCall'.key
              path == GetDiskPath(key)
              stale == key \in MemKeys(memoryCache) /\ ~FreshInMemory(memoryCache, key, now)
          IN  /\ cacheRet'.at = "memory" <=> FreshInMemory(memoryCache, key, now)
              /\ cacheRet'.at = "memory" => cacheRet'.data = MemGet(memoryCache, key).data
              /\ stale =>
                    /\ (cacheCall'.skipDisk \/ ~Exists(diskFiles, path)) =>
                          /\ cacheRet'.kind = "null"
                          /\ key \notin MemKeys(memoryCache')
                    /\ (/\ ~cacheCall'.skipDisk
                        /\ cacheCall'.fault = "none"
                        /\ Exists(diskFiles, path)
                        /\ FileAt(diskFiles, path).content.kind = "entry"
                        /\ now - FileAt(diskFiles, path).content.timestamp
                              <= DiskCacheDuration)
                       => /\ cacheRet'.kind = "value"
                          /\ cacheRet'.data = FileAt(diskFiles, path).content.data
              /\ (/\ ~Exists(diskFiles, path)
                  /\ key \in MemKeys(memoryCache)
                  /\ MemGet(memoryCache, key).timestamp = 0)
                 => /\ now = MemoryCacheDuration => cacheRet'.kind = "value"
                    /\ now = MemoryCacheDuration + 1 => cacheRet'.kind = "null"]_vars

\* A get 1 hour + 1 ms after the set found the entry too old, dropped it
\* and returned the value from the file the set wrote.
C15_Witness ==
    /\ cacheCall.op = "get"
    /\ lastSet[cacheCall.key].kind = "set"
    /\ lastSet[cacheCall.key].at = 0
    /\ now = MemoryCacheDuration + 1
    /\ cacheRet.kind = "value"
    /\ cacheRet.at = "promoted"

\* C16: a get whose file operations succeed, on a key without fresh entry
\* in the map and without skipDisk: a disk entry within diskCacheDuration is
\* returned and put into the map; an older one is deleted from the disk, the
\* map gets no entry and the result is null. With skipDisk no get changes
\* the files, returns from the disk tier or puts an entry into the map.
C16_DiskTier ==
    [][cacheCall'.op = "get" =>
          LET key == cacheCall'.key
              path == GetDiskPath(key)
          IN  /\ (/\ ~cacheCall'.skipDisk
                  /\ cacheCall'.fault = "none"
                  /\ ~FreshInMemory(memoryCache, key, now)
                  /\ Exists(diskFiles, path)
                  /\ FileAt(diskFiles, path).content.kind = "entry")
                 => LET entry == FileAt(diskFiles, path).content
                    IN  IF now - entry.timestamp <= DiskCacheDuration
                        THEN /\ cacheRet'.kind = "value"
                             /\ cacheRet'.data = entry.data
                             /\ key \in MemKeys(memoryCache')
                             /\ MemGet(memoryCache', key).data = entry.data
                             /\ diskFiles' = diskFiles
                        ELSE /\ cacheRet'.kind = "null"
                             /\ key \notin MemKeys(memoryCache')
                             /\ ~Exists(diskFiles', path)
              /\ cacheCall'.skipDisk =>
                    /\ diskFiles' = diskFiles
                    /\ cacheRet'.at \in {"memory", "skipDisk"}
                    /\ \A i \in 1..Len(memoryCache') :
                          \E j \in 1..Len(memoryCache) : memoryCache'[i] = memoryCache[j]]_vars

\* A get promoted a disk entry exactly diskCacheDuration old.
C16_Witness ==
    /\ cacheCall.op = "get"
    /\ cacheRet.kind = "value"
    /\ cacheRet.at = "promoted"
    /\ now = DiskCacheDuration
    /\ FileAt(diskFiles, GetDiskPath(cacheCall.key)).content.timestamp = 0
    /\ MemGet(memoryCache, cacheCall.key).timestamp = now

\* C17: get resolves, to a value or to null; it resolves to null when the
\* map has no fresh entry for the key and the file is absent, cannot be
\* read, cannot be parsed, or is too old and cannot be deleted.
C17_GetNeverRejects ==
    [][cacheCall'.op = "get" =>
          LET key == cacheCall'.key
              path == GetDiskPath(key)
          IN  /\ cacheRet'.kind \in {"value", "null"}
              /\ (/\ ~FreshInMemory(memoryCache, key, now)
                  /\ \/ ~Exists(diskFiles, path)
                     \/ cacheCall'.fault = "readFile"
                     \/ FileAt(diskFiles, path).content.kind = "truncated"
                     \/ /\ cacheCall'.fault = "unlink"
                        /\ now - FileAt(diskFiles, path).content.timestamp
                              > DiskCacheDuration)
                 => cacheRet'.kind = "null"]_vars

\* A get found the file too old, could not delete it and returned null.
C17_Witness ==
    /\ cacheCall.op = "get"
    /\ cacheCall.fault = "unlink"
    /\ ~cacheCall.skipDisk
    /\ cacheRet.kind = "null"
    /\ Exists(diskFiles, GetDiskPath(cacheCall.key))
    /\ FileAt(diskFiles, GetDiskPath(cacheCall.key)).content.kind = "entry"
    /\ now - FileAt(diskFiles, GetDiskPath(cacheCall.key)).content.timestamp
          > DiskCacheDuration

(***************************************************************************)
(* Properties of the cache with several keys (SpecKeys)                    *)
(***************************************************************************)

\* The step put an entry into the map: a set, or a get that promoted.
Inserted == cacheCall'.op = "set" \/ (cacheCall'.op = "get" /\ cacheRet'.at = "promoted")

\* The map as setMemoryCache found it: get has dropped the key's old entry.
MapAtInsertion ==
    IF cacheCall'.op = "get" THEN MemDelete(memoryCache, cacheCall'.key) ELSE memoryCache

\* C18: the map never holds more than maxMemoryEntries entries; an
\* insertion that finds it full removes exactly one entry, one of smallest
\* timestamp, and leaves the others as they were.
C18_MemoryBound ==
    [][/\ Len(memoryCache') <= MaxMemoryEntries
       /\ (Inserted /\ Len(MapAtInsertion) >= MaxMemoryEntries) =>
             \E i \in 1..Len(MapAtInsertion) :
                 /\ \A j \in 1..Len(MapAtInsertion) :
                       MapAtInsertion[i].timestamp <= MapAtInsertion[j].timestamp
                 /\ MemKeys(memoryCache')
                       = (MemKeys(MapAtInsertion) \ {MapAtInsertion[i].key})
                            \cup {cacheCall'.key}
                 /\ \A j \in 1..Len(MapAtInsertion) :
                       (j /= i /\ MapAtInsertion[j].key /= cacheCall'.key) =>
                           MemGet(memoryCache', MapAtInsertion[j].key) = MapAtInsertion[j]]_vars

\* A set on a full map whose first entry was the newer one: the key set
\* before is gone and the newer entry stayed.
C18_Witness ==
    /\ cacheCall.op = "set"
    /\ cacheCall.key = K_aaq
    /\ Len(memoryCache) = MaxMemoryEntries
    /\ lastSet[K_a].kind = "set"
    /\ lastSet[K_b].kind = "set"
    /\ lastSet[K_b].at < lastSet[K_a].at
    /\ K_b \notin MemKeys(memoryCache)
    /\ memoryCache[1].key = K_a

\* C20: on a set that writes to disk, the file name of the key differs from
\* that of every other key and names a file of the cache directory, and a
\* get on a cache with an empty map over the directory returns the value.
C20_DiskPathRoundTrip ==
    [][(/\ cacheCall'.op = "set"
        /\ ~cacheCall'.memoryOnly
        /\ cacheCall'.fault = "none")
       => LET key == cacheCall'.key
          IN  /\ GetDiskPath(key) = GetDiskPath(cacheCall'.key)
              /\ \A other \in Keys \ {key} : GetDiskPath(other) /= GetDiskPath(key)
              /\ Dirname(GetDiskPath(key)) = DiskCachePath
              /\ GetResult(<<>>, diskFiles', key, FALSE, now', "none").ret
                    = Value(cacheCall'.data, "promoted")]_vars

(***************************************************************************)
(* Properties of the disk cleanup (SpecCleanup)                            *)
(***************************************************************************)

RECURSIVE TotalSize(_)
TotalSize(files) ==
    IF files = {} THEN 0
    ELSE LET f == CHOOSE f \in files : TRUE IN f.size + TotalSize(files \ {f})

\* C19: a cleanup pass whose file operations succeed deletes no file when
\* the sizes add up to at most maxDiskSize; else no deleted file is newer
\* than a kept one, the files kept are a prefix of the newest-first order
\* the pass used, and their sizes add up to at most maxDiskSize.
C19_CleanupKeepsNewest ==
    [][(cacheCall'.op = "cleanup" /\ cacheCall'.fault = "none") =>
          LET deleted == diskFiles \ diskFiles'
              fileStats == cacheCall'.fileStats
          IN  /\ diskFiles' \subseteq diskFiles
              /\ TotalSize(diskFiles) <= MaxDiskSize => deleted = {}
              /\ TotalSize(diskFiles) > MaxDiskSize =>
                    /\ deleted /= {}
                    /\ \A d \in deleted, k \in diskFiles' : d.mtime <= k.mtime
                    /\ \E n \in 0..Len(fileStats) :
                          /\ diskFiles' = {fileStats[i] : i \in 1..n}
                          /\ deleted = {fileStats[i] : i \in (n + 1)..Len(fileStats)}
                    /\ TotalSize(diskFiles') <= MaxDiskSize]_vars

\* A pass over three files kept the newest and deleted the two older ones.
C19_Witness ==
    /\ cacheCall.op = "cleanup"
    /\ cacheCall.fault = "none"
    /\ Len(cacheCall.fileStats) = 3
    /\ diskFiles = {cacheCall.fileStats[1]}
    /\ cacheCall.fileStats[2].mtime < cacheCall.fileStats[1].mtime

(***************************************************************************)
(* Properties of updates (Spec)                                            *)
(***************************************************************************)

\* The ids `${documentId}_${chunkIndex}` of the documents of the last call.
BatchIds == {FlatMapDocs(call.docs)[i].id : i \in 1..Len(FlatMapDocs(call.docs))}

\* How many entries of the index carry the id.
Occurrences(ms, id) == Cardinality({i \in 1..Len(ms.documents) : ms.documents[i].id = id})

\* C21: after updateDocs every id of the given documents is in the index
\* exactly once, whether or not it was indexed before; when the persist
\* step does not fail, the call resolves with the index written to the
\* file, also when removals failed.
C21_UpdateLeavesEachIdOnce ==
    call.op = "updateDocs" =>
        /\ \A id \in BatchIds : Occurrences(searchIndex, id) = 1
        /\ call.fault = "none" =>
              /\ ret = Void
              /\ indexFile = ToJSON(searchIndex)

\* An updateDocs over two documents, one indexed before and one not: some
\* removals failed, the others did not, and the call resolved.
C21_Witness ==
    /\ call.op = "updateDocs"
    /\ call.removeErrors > 0
    /\ call.removeErrors < Cardinality(BatchIds)
    /\ Len(call.docs) = 2
    /\ ret = Void
    /\ indexFile = ToJSON(searchIndex)

(***************************************************************************)
(* Properties of builds and updates over revised files (SpecRevise)        *)
(***************************************************************************)

\* The ids in the index that belong to the document.
IdsOfDocument(ms, documentId) == {id \in IndexIds(ms) : id[1] = documentId}

\* The entry the index holds under the id.
EntryOf(ms, id) ==
    ms.documents[CHOOSE i \in 1..Len(ms.documents) : ms.documents[i].id = id]

\* C29: after an updateDocs that resolved, the index holds for every given
\* document exactly the entries of its current chunks, ids d_0 .. d_(n-1),
\* and no search returns an entry d_k with k >= n.
C29_UpdateReplacesAllChunks ==
    (call.op = "updateDocs" /\ ret = Void) =>
        \A i \in 1..Len(call.docs) :
            LET d == call.docs[i]
                current == ProcessDocForIndexing(d)
            IN  /\ IdsOfDocument(searchIndex, d.id) = {current[k].id : k \in 1..Len(current)}
                /\ \A k \in 1..Len(current) :
                      EntryOf(searchIndex, current[k].id) = IndexEntry(searchIndex, current[k])
                /\ \A q \in ProbeQueries :
                      LET hits == Search(searchIndex, q, NoCategory)
                      IN  \A h \in 1..Len(hits) :
                              hits[h].id[1] = d.id => hits[h].id[2] < Len(d.chunks)

\* C22: over every buildIndex call, failed ones included, the entries of
\* the batch a search can observe are afterwards either the ones it could
\* observe before the call, or all of them.
C22_BulkInsertAtomic ==
    [][call'.op = "buildIndex" =>
          LET batch == FlatMapDocs(call'.docs)
              ids == {batch[i].id : i \in 1..Len(batch)}
          IN  \/ ids \cap IndexIds(searchIndex') = ids \cap IndexIds(searchIndex)
              \/ ids \cap IndexIds(searchIndex') = ids]_vars

(***************************************************************************)
(* Properties of the docs services (SpecService)                           *)
(***************************************************************************)

\* The calls initialize makes when loadIndex returns false.
RebuildLog == <<"loadIndex", "processAllDocs", "buildIndex">>

\* C23: in every process the service is initialized once: loadIndex is the
\* first call and is made once, however often getInstance is called;
\* processAllDocs and then buildIndex are called exactly when loadIndex
\* returned false, and nothing follows a loadIndex that returned true.
C23_InitializeOncePerProcess ==
    service.kind = "process" =>
        /\ service.instance <=> service.log /= <<>>
        /\ \E n \in 0..3 : service.log = SubSeq(RebuildLog, 1, n)
        /\ service.loaded = "unknown" => Len(service.log) <= 1
        /\ service.loaded = "true" => service.log = <<"loadIndex">> /\ service.init = "done"
        /\ service.loaded = "false" => Len(service.log) >= 2
        /\ (service.loaded = "false" /\ service.init \in {"done", "failed"}) =>
              service.log = RebuildLog

\* A second process, in which getInstance was called twice, loaded the
\* index the first process built, and made no other call.
C23_Witness ==
    /\ service.kind = "process"
    /\ service.starts = 2
    /\ service.lookups = 2
    /\ service.loaded = "true"
    /\ service.init = "done"
    /\ service.log = <<"loadIndex">>
    /\ Len(searchIndex.documents) > 0

\* C26: a search that is called after initialize has completed answers
\* with what the index yields for its arguments.
C26_SearchAnswersFromCurrentIndex ==
    (request.kind = "answered" /\ request.init = "done") =>
        request.results = IndexAnswer(searchIndex, request.args)

(***************************************************************************)
(* Properties of the server's tools (SpecTools)                            *)
(***************************************************************************)

\* The tools of the README with the service each one searches.
ServiceOfTool ==
    [search_typescript_docs |-> "typescript",
     search_node_docs |-> "node",
     search_discord_docs |-> "discord"]

\* A query and the optional filter of the tool, as the README describes
\* them.
ValidArguments(name, args) ==
    CASE name = "search_typescript_docs" -> IsValidTypeScriptSearchArgs(args)
      [] name = "search_node_docs" -> IsValidNodeDocsSearchArgs(args)
      [] name = "search_discord_docs" ->
            /\ args.query.type = "string"
            /\ Len(args.query.value) > 0
            /\ args.category \in {Undefined, Str("slash-commands")}

\* C24: a call of one of the three tools with valid arguments reaches the
\* service of the tool and is answered with results or with the no-results
\* message unless the service itself fails; it is never an unknown tool.
C24_ThreeToolsDispatched ==
    (/\ toolResponse.kind /= "idle"
     /\ toolRequest.name \in DOMAIN ServiceOfTool
     /\ ValidArguments(toolRequest.name, toolRequest.arguments)) =>
        /\ toolResponse.service = ServiceOfTool[toolRequest.name]
        /\ toolResponse.kind = "error" => toolResponse.code = "InternalError"

(***************************************************************************)
(* Properties of the rate limiter (SpecLimiter)                            *)
(***************************************************************************)

\* C25: any two returns of wait are at least RATE_LIMIT_WINDOW apart.
C25_ReturnsSpacedByWindow ==
    \A i, j \in 1..Len(returned) :
        i < j => returned[j] - returned[i] >= RateLimitWindow

(***************************************************************************)
(* Properties of the two tiers together (SpecTiers)                        *)
(***************************************************************************)

\* C27: a get that returns a value returns the value of the most recent
\* set of its key.
C27_LastWriteWins ==
    (cacheCall.op = "get" /\ cacheRet.kind = "value") =>
        /\ lastSet[cacheCall.key].kind = "set"
        /\ cacheRet.data = lastSet[cacheCall.key].data

\* C28: a get does not return the value of the most recent set of its key
\* when that set is more than diskCacheDuration in the past.
C28_NoValueOlderThanDiskTtl ==
    (/\ cacheCall.op = "get"
     /\ cacheRet.kind = "value"
     /\ lastSet[cacheCall.key].kind = "set"
     /\ cacheRet.data = lastSet[cacheCall.key].data)
    => now - lastSet[cacheCall.key].at <= DiskCacheDuration

(***************************************************************************)
(* Properties of clear (SpecFlight)                                        *)
(***************************************************************************)

\* C30: once clear has resolved, with the sets all started before clear
\* was called, every get returns null.
C30_NullAfterClear ==
    (clearing.pc = "resolved" /\ cacheCall.op = "get") => cacheRet.kind = "null"
====
